---- MODULE Spec2Model ----
(***************************************************************************)
(* Benders (L-shaped) decomposition driver of pyomo/pysp/benders.py:       *)
(* BendersAlgorithm.solve, generate_cut, collect_cut_data, add_cut and the *)
(* EXTERNAL_* per-scenario functions, with the phpyro worker pool.         *)
(*                                                                         *)
(* Numbers are exact integers.  Objective values, bounds and subproblem    *)
(* costs are counted in units of 1e-10, so that the guard 1e-10 of the gap *)
(* denominator is the integer 1.  Ratios (the gap, percent_gap, the        *)
(* scenario probabilities) are pairs <<numerator, denominator>>.           *)
(* An optional value (None in the source) is the empty sequence <<>>, a    *)
(* present one is <<v>>.                                                   *)
(***************************************************************************)
EXTENDS Integers, Sequences, FiniteSets, TLC

VARIABLES
    \* run parameters and collaborators, fixed for a run
    objective_sense,        \* ph._objective_sense
    max_iterations,         \* options.max_iterations
    percent_gap,            \* options.percent_gap
    user_bound,             \* options.user_bound
    distributed,            \* solver manager is SolverManager_PHPyro
    bundling,               \* ph._scenario_tree.contains_bundles()
    multicuts,              \* options.multicuts
    per_bundle_arg,         \* per_bundle of a call of add_cut from outside solve
    stages,                 \* len(scenario_tree._stages)
    phpyro_required_workers,    \* options.phpyro_required_workers
    phpyro_workers_timeout,     \* options.phpyro_workers_timeout
    \* exec_runbenders / collect_servers
    servers_expected,       \* first argument of acquire_servers, 0 before
    timeout,                \* second argument of acquire_servers
    server_pool,            \* number of workers the solver manager holds
    elapsed,                \* time waited in acquire_servers
    acquired,               \* acquire_servers has returned
    released,               \* release_servers has been called
    ph_components,          \* the subproblem manager holds its components
    self_ph,                \* BendersAlgorithm._ph is not None
    problem,                \* the stochastic program the run is given
    master_mipgap,          \* options.master_mipgap, as an absolute amount
    \* coordinator (BendersAlgorithm.solve)
    pc,                     \* position of the coordinator
    ret,                    \* position to continue at after wait_all
    caller,                 \* who called generate_cut: "seed" or "iter"
    i,                      \* loop index of solve
    xbars,                  \* argument of generate_cut
    trivial_bound,
    MASTER_bound_history,
    OBJECTIVE_history,
    incumbent_objective,
    best_master_bound,
    optimality_gap,
    current_master_bound,
    alpha_value,            \* value(master_alpha) of the last master solution
    master_alpha_fixed,     \* master_alpha.fixed
    benders_cuts,           \* the master's ConstraintList PYSP_BENDERS_CUTS_
    seed_cuts,              \* inequalities added before the first iteration
    converged,              \* "Benders decomposition converged" was printed
    warned,                 \* a warning was shown by restoreCachedSolutions
    master_solves,          \* number of master solver calls so far
    subproblem_solves,      \* number of ph.solve_subproblems calls so far
    \* collect_cut_data / wait_all locals
    ahs,                    \* action handles dispatched by the current call
    num_so_far,
    results,
    arrivals,               \* targets in the order wait_any returned them
    \* worker pool
    queue,                  \* dispatched jobs not yet run by a worker
    completed,              \* finished jobs not yet returned by wait_any
    job_results,            \* payload of each finished job
    \* scenario instances (on the workers in distributed mode)
    instances,              \* scenario._instance and its last solution
    \* scenario tree solution and its cache
    live_solution,          \* tag of the solution held by the scenario tree
    incumbent_cache         \* ph cache under ph._incumbent_cache_id

vars == <<objective_sense, max_iterations, percent_gap, user_bound,
          distributed, bundling, multicuts, per_bundle_arg, stages,
          phpyro_required_workers, phpyro_workers_timeout, servers_expected,
          timeout, server_pool, elapsed, acquired, released, ph_components,
          self_ph, problem, master_mipgap, pc, ret, caller,
          i, xbars, trivial_bound,
          MASTER_bound_history, OBJECTIVE_history, incumbent_objective,
          best_master_bound, optimality_gap, current_master_bound,
          alpha_value, master_alpha_fixed, benders_cuts, seed_cuts,
          converged, warned, master_solves, subproblem_solves, ahs, num_so_far, results,
          arrivals, queue, completed, job_results, instances,
          live_solution, incumbent_cache>>

\* the worker pool as exec_runbenders sees it; solve leaves it alone
run_vars == <<stages, phpyro_required_workers, phpyro_workers_timeout,
              servers_expected, timeout, server_pool, elapsed, acquired,
              released, ph_components, self_ph, problem, master_mipgap>>

config_vars == <<objective_sense, max_iterations, percent_gap, user_bound,
                 distributed, bundling, multicuts, per_bundle_arg, run_vars>>

pool_vars == <<queue, completed, job_results>>

history_vars == <<trivial_bound, MASTER_bound_history, OBJECTIVE_history,
                  incumbent_objective, best_master_bound, optimality_gap,
                  current_master_bound, alpha_value, master_alpha_fixed,
                  benders_cuts, seed_cuts, converged, warned, master_solves,
                  incumbent_cache>>

collect_vars == <<ahs, num_so_far, results, arrivals>>

----------------------------------------------------------------------------
(* Bounds of the model.                                                    *)

MaxIterations == 2      \* largest options.max_iterations explored

MaxForeign == 1         \* foreign completions during one collect_cut_data

MaxWait == 2            \* longest wait in acquire_servers explored

----------------------------------------------------------------------------
(* Numbers.                                                                *)

PosInf == 1000000

NegInf == 0 - PosInf

None == <<>>

Some(v) == <<v>>

Abs(x) == IF x < 0 THEN 0 - x ELSE x

MaxOf(S) ==
    IF S = {} THEN NegInf ELSE CHOOSE x \in S : \A y \in S : y <= x

MinOf(S) ==
    IF S = {} THEN PosInf ELSE CHOOSE x \in S : \A y \in S : x <= y

Values(f) == {f[k] : k \in DOMAIN f}

\* ratio a <= ratio b, both with positive denominators
RatioLeq(a, b) == a[1] * b[2] <= b[1] * a[2]

----------------------------------------------------------------------------
(* The scenario tree and the stochastic program (external collaborators).  *)
(* The sample program: two scenarios of probability 1/2, two first-stage   *)
(* variables.  The recourse cost of Scenario1 is 2*max(0, 1 - x1) + 2*x2,  *)
(* the one of Scenario2 is 2*max(0, x1 - 1); the first-stage cost is       *)
(* 2*x1 + 2*x2.                                                            *)

\* The stochastic programs.  "sample": two scenarios, two first-stage
\* variables, the master's answers drawn from MasterSolutions.  "one": one
\* scenario, one variable x in 0..10, first-stage cost x, recourse cost
\* 2 * max(0, 5 - x).  "claimed": two scenarios of probability 1/2, one
\* variable x in 0..10, first-stage cost x, recourse costs max(0, 5 - x)
\* and max(0, x - 5); its amounts are counted in halves, so that the
\* probabilities divide them exactly.
ScenarioList ==
    IF problem = "one" THEN <<"Scenario1">>
    ELSE <<"Scenario1", "Scenario2">>

Scenarios == {ScenarioList[k] : k \in DOMAIN ScenarioList}

BundleList == <<"Bundle1">>

Bundles == {BundleList[k] : k \in DOMAIN BundleList}

BundleScenarios(b) == Scenarios

Probability(s) == IF problem = "one" THEN <<1, 1>> ELSE <<1, 2>>

BundleProbability(b) == <<1, 1>>

VariableIds == IF problem = "sample" THEN {"x1", "x2"} ELSE {"x1"}

Point(a, b) == [v \in VariableIds |-> IF v = "x1" THEN a ELSE b]

\* rootnode._xbars after the trivial-bound solves
RootXbars ==
    CASE problem = "one" -> Point(5, 0)
      [] problem = "claimed" -> Point(2, 0)
      [] OTHER -> Point(1, 0)

\* v * (a / b), a / b a ratio
Scaled(v, r) == (v * r[1]) \div r[2]

\* a / b
Quotient(a, b) == <<a[1] * b[2], a[2] * b[1]>>

RECURSIVE Sum(_, _)
Sum(f, S) ==
    IF S = {} THEN 0
    ELSE LET x == CHOOSE y \in S : TRUE
         IN f[x] + Sum(f, S \ {x})

RecourseCost(s, x) ==
    IF problem = "sample"
    THEN IF s = "Scenario1"
         THEN 2 * (IF x["x1"] < 1 THEN 1 - x["x1"] ELSE 0) + 2 * x["x2"]
         ELSE 2 * (IF x["x1"] > 1 THEN x["x1"] - 1 ELSE 0)
    ELSE IF s = "Scenario1"
         THEN 2 * (IF x["x1"] < 5 THEN 5 - x["x1"] ELSE 0)
         ELSE 2 * (IF x["x1"] > 5 THEN x["x1"] - 5 ELSE 0)

\* shadow price of "scenarioVar - fixValue = 0" in the scenario's own problem
RecourseDual(s, x) ==
    IF problem = "sample"
    THEN IF s = "Scenario1"
         THEN Point(IF x["x1"] < 1 THEN 0 - 2 ELSE 0, 2)
         ELSE Point(IF x["x1"] > 1 THEN 2 ELSE 0, 0)
    ELSE IF s = "Scenario1"
         THEN Point(IF x["x1"] < 5 THEN 0 - 2 ELSE 0, 0)
         ELSE Point(IF x["x1"] > 5 THEN 2 ELSE 0, 0)

FirstStageCost(x) ==
    CASE problem = "one" -> x["x1"]
      [] problem = "claimed" -> 2 * x["x1"]
      [] OTHER -> 2 * x["x1"] + 2 * x["x2"]

\* optimum of the scenario's relaxed problem with free first-stage variables
RelaxedObjective(s) ==
    CASE problem = "one" -> 5
      [] problem = "claimed" -> IF s = "Scenario1" THEN 10 ELSE 0
      [] OTHER -> IF s = "Scenario1" THEN 2 ELSE 0

\* the scenario's share of the objective of the problem it is solved in
SolveWeight(s) ==
    IF bundling
    THEN Quotient(Probability(s),
                  BundleProbability(CHOOSE b \in Bundles :
                                        s \in BundleScenarios(b)))
    ELSE <<1, 1>>

\* the solver applied to the scenario's instance: scenario._objective,
\* scenario._stage_costs[leaf stage] and the dual suffix after the solve
SolveInstance(s, inst) ==
    IF inst.fix_active
    THEN [inst EXCEPT
            !.objective = RecourseCost(s, inst.fix_value)
                          + (IF inst.cost_term_active
                             THEN FirstStageCost(inst.fix_value) ELSE 0),
            !.stage_cost = RecourseCost(s, inst.fix_value),
            !.dual = [v \in VariableIds |->
                         Scaled(RecourseDual(s, inst.fix_value)[v],
                                SolveWeight(s))],
            !.solved_at = Some(inst.fix_value)]
    ELSE [inst EXCEPT
            !.objective = RelaxedObjective(s),
            !.stage_cost = 0,
            !.dual = Point(0, 0),
            !.solved_at = None]

----------------------------------------------------------------------------
(* The per-scenario functions run next to the scenario's instance.         *)

\* the function stops with the exception e; the instance keeps the mark
Raise(inst, e) == [inst EXCEPT !.raised = e]

\* what the attribute "dual" of the instance can hold: nothing, a Suffix of
\* one of the four directions, or an object of another type
SuffixDirections == {"LOCAL", "EXPORT", "IMPORT", "IMPORT_EXPORT"}

DualSlots == {"absent", "other"} \cup SuffixDirections

importEnabled(direction) == direction \in {"IMPORT", "IMPORT_EXPORT"}

EXTERNAL_deactivate_firststage_cost(s, inst) ==
    IF stages # 2 THEN Raise(inst, "AssertionError")
    ELSE [inst EXCEPT !.cost_term_active = FALSE]

\* lines 680-688: line 685 reads the attribute _stage of the method
\* findRootNode, which has none
EXTERNAL_activate_firststage_cost(s, inst) ==
    IF stages # 2 THEN Raise(inst, "AssertionError")
    ELSE Raise(inst, "AttributeError")

EXTERNAL_activate_fix_constraints(s, inst) ==
    IF stages # 2 THEN Raise(inst, "AssertionError")
    ELSE [inst EXCEPT !.fix_active = TRUE]

EXTERNAL_deactivate_fix_constraints(s, inst) ==
    IF stages # 2 THEN Raise(inst, "AssertionError")
    ELSE [inst EXCEPT !.fix_active = FALSE]

\* the fixing block installed and left active
EXTERNAL_initialize_for_benders_active(s, inst) ==
    IF stages # 2 THEN Raise(inst, "AssertionError")
    ELSE IF inst.dual_slot \notin {"absent"} \cup SuffixDirections
    THEN Raise(inst, "TypeError")
    ELSE [inst EXCEPT
            !.dual_slot = IF inst.dual_slot = "absent" THEN "IMPORT"
                          ELSE IF importEnabled(inst.dual_slot)
                          THEN inst.dual_slot
                          ELSE "IMPORT_EXPORT",
            !.initialized = TRUE,
            !.fix_value = Point(0, 0),
            !.fix_active = TRUE]

\* a dual suffix of direction IMPORT whatever the attribute held
EXTERNAL_initialize_for_benders_replacing(s, inst) ==
    IF stages # 2 THEN Raise(inst, "AssertionError")
    ELSE [inst EXCEPT !.dual_slot = "IMPORT",
                      !.initialized = TRUE,
                      !.fix_value = Point(0, 0),
                      !.fix_active = FALSE]

\* lines 705-781: the assertion, the dual suffix, then the fixing block
EXTERNAL_initialize_for_benders(s, inst) ==
    IF stages # 2 THEN Raise(inst, "AssertionError")
    ELSE IF inst.dual_slot \notin {"absent"} \cup SuffixDirections
    THEN Raise(inst, "TypeError")
    ELSE [inst EXCEPT
            !.dual_slot = IF inst.dual_slot = "absent" THEN "IMPORT"
                          ELSE IF importEnabled(inst.dual_slot)
                          THEN inst.dual_slot
                          ELSE "IMPORT_EXPORT",
            !.initialized = TRUE,
            !.fix_value = Point(0, 0),
            !.fix_active = FALSE]

\* the new values added to the ones the parameters hold
EXTERNAL_update_fix_constraints_adding(s, inst, fix_values) ==
    IF stages # 2 THEN Raise(inst, "AssertionError")
    ELSE [inst EXCEPT !.fix_value =
                         [v \in VariableIds |-> @[v] + fix_values[v]]]

EXTERNAL_update_fix_constraints(s, inst, fix_values) ==
    IF stages # 2 THEN Raise(inst, "AssertionError")
    ELSE [inst EXCEPT !.fix_value = fix_values]

\* the solver dual as it is, whatever the scenario is solved in
EXTERNAL_collect_cut_data_unscaled(s, inst) ==
    [SSC |-> inst.stage_cost,
     duals |-> [v \in VariableIds |-> inst.dual[v]]]

EXTERNAL_collect_cut_data(s, inst) ==
    LET sum_probability_bundle ==
            IF bundling
            THEN BundleProbability(CHOOSE b \in Bundles :
                                       s \in BundleScenarios(b))
            ELSE Probability(s)
    IN [SSC |-> inst.stage_cost,
        duals |-> [v \in VariableIds |->
                      Scaled(inst.dual[v],
                             Quotient(sum_probability_bundle,
                                      Probability(s)))]]

----------------------------------------------------------------------------
(* The worker pool: action handles, dispatch, workers.                     *)

NoArgs == Point(0, 0)

ActionHandle(fn, target, arg) ==
    [fn |-> fn, target |-> target, arg |-> arg, id |-> 0]

\* a job that some other part of the run queued and did not wait for
ForeignHandle(k) ==
    [fn |-> "foreign", target |-> "foreign", arg |-> NoArgs, id |-> k]

EmptyResults == [s \in {} |-> 0]

\* the objects a per-scenario invocation is sent to
ObjectNames == IF bundling THEN Bundles ELSE Scenarios

TargetScenarios(t) ==
    IF t \in Bundles THEN BundleScenarios(t)
    ELSE IF t \in Scenarios THEN {t} ELSE {}

\* what the named function does to the instance of scenario s
Invoke(fn, s, inst, arg) ==
    CASE fn = "EXTERNAL_initialize_for_benders" ->
            EXTERNAL_initialize_for_benders(s, inst)
      [] fn = "EXTERNAL_deactivate_firststage_cost" ->
            EXTERNAL_deactivate_firststage_cost(s, inst)
      [] fn = "EXTERNAL_activate_firststage_cost" ->
            EXTERNAL_activate_firststage_cost(s, inst)
      [] fn = "EXTERNAL_activate_fix_constraints" ->
            EXTERNAL_activate_fix_constraints(s, inst)
      [] fn = "EXTERNAL_deactivate_fix_constraints" ->
            EXTERNAL_deactivate_fix_constraints(s, inst)
      [] fn = "EXTERNAL_update_fix_constraints" ->
            EXTERNAL_update_fix_constraints(s, inst, arg)
      [] fn = "solve" -> SolveInstance(s, inst)
      [] OTHER -> inst

\* the scenarios whose dual attribute is the one of scenario s: with
\* bundles the attribute is on the bundle's binding instance
SharesDual(s, t) ==
    bundling /\ \E b \in Bundles : {s, t} \subseteq BundleScenarios(b)

\* the function applied to the named scenarios one after the other, up to
\* the first one that raises
RECURSIVE InvokeEach(_, _, _, _)
InvokeEach(fn, names, insts, arg) ==
    IF names = <<>> THEN insts
    ELSE LET s == Head(names)
             new == Invoke(fn, s, insts[s], arg)
             after == [t \in Scenarios |->
                         IF t = s THEN new
                         ELSE IF SharesDual(s, t)
                         THEN [insts[t] EXCEPT !.dual_slot = new.dual_slot]
                         ELSE insts[t]]
         IN IF new.raised # "none" THEN after
            ELSE InvokeEach(fn, Tail(names), after, arg)

Raised(insts, S) == \E s \in S : insts[s].raised # "none"

\* the result of a job whose function raised
ErrorResults == [s \in {"raised"} |-> 0]

\* the result a job sends back
Payload(fn, t, insts) ==
    IF fn = "EXTERNAL_collect_cut_data"
    THEN [s \in TargetScenarios(t) |-> EXTERNAL_collect_cut_data(s, insts[s])]
    ELSE EmptyResults

\* dict.update: the entries of new replace and extend those of old
Update(old, new) ==
    [k \in DOMAIN old \cup DOMAIN new |->
        IF k \in DOMAIN new THEN new[k] ELSE old[k]]

\* the invocation without solver_manager.wait_all
PerScenarioInvocationNoWait(fn, arg, next) ==
    IF distributed
    THEN /\ queue' = queue \cup {ActionHandle(fn, t, arg) : t \in ObjectNames}
         /\ pc' = next
         /\ UNCHANGED <<ahs, ret, instances, completed, job_results>>
    ELSE /\ instances' = [s \in Scenarios |-> Invoke(fn, s, instances[s], arg)]
         /\ pc' = next
         /\ UNCHANGED <<ahs, ret, pool_vars>>

\* transmit_external_function_invocation_to_worker for every object name,
\* followed by solver_manager.wait_all; or the local loop over the scenarios
PerScenarioInvocation(fn, arg, next) ==
    IF distributed
    THEN LET handles == {ActionHandle(fn, t, arg) : t \in ObjectNames}
         IN /\ queue' = queue \cup handles
            /\ ahs' = handles
            /\ pc' = "wait_all"
            /\ ret' = next
            /\ UNCHANGED <<instances, completed, job_results>>
    ELSE /\ instances' = InvokeEach(fn, ScenarioList, instances, arg)
         /\ pc' = IF Raised(instances', Scenarios) THEN "failed" ELSE next
         /\ UNCHANGED <<ahs, ret, pool_vars>>

\* a worker runs one queued job and reports its completion
WorkerRun(h) ==
    /\ h \in queue
    /\ queue' = queue \ {h}
    /\ instances' =
          InvokeEach(h.fn,
                     SelectSeq(ScenarioList,
                               LAMBDA s : s \in TargetScenarios(h.target)),
                     instances, h.arg)
    /\ completed' = completed \cup {h}
    /\ job_results' =
          Update(job_results,
                 [k \in {h} |->
                     IF Raised(instances', TargetScenarios(h.target))
                     THEN ErrorResults
                     ELSE Payload(h.fn, h.target, instances)])
    /\ UNCHANGED <<config_vars, pc, ret, caller, i, xbars, history_vars,
                   subproblem_solves, collect_vars, live_solution>>

\* a wait that returns with the first handle of ahs
WaitAllFirst(others) ==
    /\ pc = "wait_all"
    /\ ahs \cap completed # {}
    /\ others \subseteq completed \ ahs
    /\ completed' = completed \ (ahs \cup others)
    /\ job_results' = [h \in DOMAIN job_results \ (ahs \cup others) |->
                          job_results[h]]
    /\ ahs' = {}
    /\ pc' = ret
    /\ ret' = "none"
    /\ UNCHANGED <<config_vars, caller, i, xbars, history_vars,
                   subproblem_solves, num_so_far, results, arrivals, queue,
                   instances, live_solution>>

\* solver_manager.wait_all(ahs): wait_any is called until every handle of
\* ahs has been returned; the other handles it returns are dropped
WaitAll(others) ==
    /\ pc = "wait_all"
    /\ ahs \subseteq completed
    /\ others \subseteq completed \ ahs
    /\ completed' = completed \ (ahs \cup others)
    /\ job_results' = [h \in DOMAIN job_results \ (ahs \cup others) |->
                          job_results[h]]
    /\ ahs' = {}
    /\ pc' = IF \E h \in ahs : job_results[h] = ErrorResults
             THEN "failed" ELSE ret
    /\ ret' = "none"
    /\ UNCHANGED <<config_vars, caller, i, xbars, history_vars,
                   subproblem_solves, num_so_far, results, arrivals, queue,
                   instances, live_solution>>

----------------------------------------------------------------------------
(* Cuts.                                                                   *)

BendersOptimalityCut(xb, ssc, duals) ==
    [xbars |-> xb, ssc |-> ssc, duals |-> duals]

\* the cut generate_cut builds from the collected cut data
CutOf(xb, cut_data) ==
    BendersOptimalityCut(xb,
                         [name \in DOMAIN cut_data |-> cut_data[name].SSC],
                         [name \in DOMAIN cut_data |-> cut_data[name].duals])

\* the expression without the scenario probabilities
CutExpressionUnweighted(cut, S) ==
    [s \in S |->
        [const |-> cut.ssc[s]
                   - Sum([v \in VariableIds |->
                            cut.duals[s][v] * cut.xbars[v]],
                         VariableIds),
         coef |-> [v \in VariableIds |-> cut.duals[s][v]]]]

\* the expression with xbars added instead of subtracted
CutExpressionPlus(cut, S) ==
    [s \in S |->
        [const |-> Scaled(cut.ssc[s]
                          + Sum([v \in VariableIds |->
                                   cut.duals[s][v] * cut.xbars[v]],
                                VariableIds),
                          Probability(s)),
         coef |-> [v \in VariableIds |->
                     Scaled(cut.duals[s][v], Probability(s))]]]

\* the expression that lines 1282-1291 and 1306-1315 accumulate: for every
\* scenario of S the term
\*   probability * (ssc + sum_v duals[v] * (x[v] - xbars[v])),
\* held as its constant part and its coefficient of each master variable x[v]
CutExpression(cut, S) ==
    [s \in S |->
        [const |-> Scaled(cut.ssc[s]
                          - Sum([v \in VariableIds |->
                                   cut.duals[s][v] * cut.xbars[v]],
                                VariableIds),
                          Probability(s)),
         coef |-> [v \in VariableIds |->
                     Scaled(cut.duals[s][v], Probability(s))]]]

\* the bundles filled with the scenario of their own number only
PYSP_BENDERS_CUT_BUNDLES_own(b) ==
    {ScenarioList[k] : k \in {n \in DOMAIN ScenarioList : n - 1 = b}}

\* lines 956-961: scenario number cnt goes to cut bundle cnt % multicuts;
\* the scenarios of cut bundle b, b in 0..multicuts-1
\* the scenarios dealt out in blocks of multicuts
PYSP_BENDERS_CUT_BUNDLES_blocks(b) ==
    {ScenarioList[k] :
        k \in {n \in DOMAIN ScenarioList : (n - 1) \div multicuts = b}}

PYSP_BENDERS_CUT_BUNDLES(b) ==
    {ScenarioList[k] : k \in {n \in DOMAIN ScenarioList :
                                 (n - 1) % multicuts = b}}

\* benders_cuts.add((None, cut_expression, 0.0)) under minimize,
\* benders_cuts.add((0.0, cut_expression, None)) under maximize, where
\* cut_expression is expr minus the variable alpha
Inequality(expr, alpha) ==
    [expr |-> expr,
     alpha |-> alpha,
     bound |-> IF objective_sense = "minimize" THEN "<= 0" ELSE ">= 0"]

\* an add_cut that takes no notice of per_bundle
add_cut_aggregate(cuts, cut, per_bundle) ==
    Append(cuts,
           Inequality(CutExpression(cut, Scenarios), <<"master_alpha">>))

\* an add_cut that rebuilds the constraint list from the new cut alone
add_cut_rebuilding(cuts, cut, per_bundle) ==
    IF per_bundle
    THEN [k \in 1..multicuts |->
             Inequality(CutExpression(cut, PYSP_BENDERS_CUT_BUNDLES(k - 1)),
                        <<"bundle_alpha", k - 1>>)]
    ELSE <<Inequality(CutExpression(cut, Scenarios), <<"master_alpha">>)>>

\* add_cut(benders_cut, per_bundle): one inequality per cut bundle over
\* bundle_alpha[b], or one inequality over master_alpha and all scenarios
add_cut(cuts, cut, per_bundle) ==
    IF per_bundle
    THEN cuts \o [k \in 1..multicuts |->
                    Inequality(CutExpression(cut,
                                             PYSP_BENDERS_CUT_BUNDLES(k - 1)),
                               <<"bundle_alpha", k - 1>>)]
    ELSE Append(cuts,
                Inequality(CutExpression(cut, Scenarios),
                           <<"master_alpha">>))

----------------------------------------------------------------------------
(* The master solver (external): the solutions it may return.              *)

MasterSolutions ==
    { [objective |-> 1, alpha |-> 0 - 1, gap |-> None, xbars |-> Point(0, 0)],
      [objective |-> 4, alpha |-> 0, gap |-> Some(1), xbars |-> Point(2, 0)],
      [objective |-> 3, alpha |-> 2, gap |-> None,    xbars |-> Point(1, 1)] }

PercentGaps == { <<1, 10000>>, <<1, 3>> }

UserBounds == { None, Some(2) }

----------------------------------------------------------------------------
(* The state at the start of BendersAlgorithm.solve.                       *)

NewInstance ==
    [initialized |-> FALSE, cost_term_active |-> TRUE, fix_active |-> FALSE,
     fix_value |-> Point(0, 0), objective |-> 0, stage_cost |-> 0,
     dual |-> Point(0, 0), solved_at |-> None,
     dual_slot |-> "absent", raised |-> "none"]

EmptyHistory == [k \in {} |-> 0]

WorkersTimeout == 1     \* options.phpyro_workers_timeout, in units of time

\* lines 657-660: one job per bundle, or per scenario without bundles
num_jobs ==
    IF bundling THEN Cardinality(Bundles) ELSE Cardinality(Scenarios)

\* collect_servers with no timeout at all
collect_servers_untimed ==
    [servers_expected |-> IF phpyro_required_workers = None THEN num_jobs
                          ELSE phpyro_required_workers[1],
     timeout |-> None]

\* collect_servers keeping the timeout whatever the options
collect_servers_timed ==
    [servers_expected |-> IF phpyro_required_workers = None THEN num_jobs
                          ELSE phpyro_required_workers[1],
     timeout |-> Some(phpyro_workers_timeout)]

\* collect_servers (lines 653-669): what acquire_servers is called with
collect_servers ==
    IF phpyro_required_workers = None
    THEN [servers_expected |-> num_jobs,
          timeout |-> Some(phpyro_workers_timeout)]
    ELSE [servers_expected |-> phpyro_required_workers[1],
          timeout |-> None]

\* a two-stage tree and, with phpyro, the workers collect_servers acquired
\* under the default options
PoolAtSolve ==
    /\ stages = 2
    /\ phpyro_required_workers = None
    /\ phpyro_workers_timeout = WorkersTimeout
    /\ servers_expected = IF distributed THEN collect_servers.servers_expected
                          ELSE 0
    /\ timeout = IF distributed THEN collect_servers.timeout ELSE None
    /\ server_pool = servers_expected
    /\ elapsed = 0
    /\ acquired = distributed
    /\ released = FALSE
    /\ ph_components = TRUE
    /\ self_ph = TRUE

Init ==
    /\ problem = "sample"
    /\ master_mipgap = 0
    /\ objective_sense \in {"minimize", "maximize"}
    /\ max_iterations \in 0..MaxIterations
    /\ percent_gap \in PercentGaps
    /\ user_bound \in UserBounds
    /\ distributed \in BOOLEAN
    /\ bundling \in BOOLEAN
    /\ multicuts \in 1..Len(ScenarioList)
    /\ per_bundle_arg = FALSE
    /\ PoolAtSolve
    /\ pc = "solve"
    /\ ret = "none"
    /\ caller = "none"
    /\ i = 0
    /\ xbars = RootXbars
    /\ trivial_bound = 0
    /\ MASTER_bound_history = EmptyHistory
    /\ OBJECTIVE_history = EmptyHistory
    /\ incumbent_objective =
           IF objective_sense = "minimize" THEN PosInf ELSE NegInf
    /\ best_master_bound = 0
    /\ optimality_gap = None
    /\ current_master_bound = 0
    /\ alpha_value = 0
    \* initialize leaves alpha free (line 971); lines 1363 and 1436 provide
    \* for a master whose alpha was fixed before solve is called
    /\ master_alpha_fixed \in BOOLEAN
    /\ benders_cuts = <<>>
    /\ seed_cuts = 0
    /\ converged = FALSE
    /\ warned = FALSE
    /\ master_solves = 0
    /\ subproblem_solves = 0
    /\ ahs = {}
    /\ num_so_far = 0
    /\ results = EmptyResults
    /\ arrivals = <<>>
    /\ queue = {}
    /\ completed = {}
    /\ job_results = [h \in {} |-> EmptyResults]
    /\ instances = [s \in Scenarios |-> NewInstance]
    /\ live_solution = [solve |-> 0, iteration |-> 0]
    /\ incumbent_cache = None

----------------------------------------------------------------------------
(* BendersAlgorithm.solve.                                                 *)

\* ph.solve_subproblems(): every subproblem is solved as it stands, and the
\* scenario tree takes the new solutions
SolveSubproblems(next) ==
    /\ PerScenarioInvocation("solve", NoArgs, next)
    /\ subproblem_solves' = subproblem_solves + 1
    /\ live_solution' = [solve |-> subproblem_solves + 1, iteration |-> i]

\* lines 1351-1355: the relaxed solves for the trivial bound
TrivialBoundSolve ==
    /\ pc = "solve"
    /\ SolveSubproblems("initialize_for_benders")
    /\ UNCHANGED <<config_vars, caller, i, xbars, history_vars, num_so_far,
                   results, arrivals>>

\* lines 1356-1360
InitializeForBenders ==
    /\ pc = "initialize_for_benders"
    /\ trivial_bound' =
          Sum([s \in Scenarios |->
                 Scaled(instances[s].objective, Probability(s))], Scenarios)
    /\ PerScenarioInvocation("EXTERNAL_initialize_for_benders", NoArgs,
                             "deactivate_firststage_cost")
    /\ UNCHANGED <<config_vars, caller, i, xbars, MASTER_bound_history,
                   OBJECTIVE_history, incumbent_objective, best_master_bound,
                   optimality_gap, current_master_bound, alpha_value,
                   master_alpha_fixed, benders_cuts, seed_cuts, converged, warned,
                   master_solves, incumbent_cache, subproblem_solves,
                   num_so_far, results, arrivals, live_solution>>

\* line 1361
DeactivateFirststageCost ==
    /\ pc = "deactivate_firststage_cost"
    /\ PerScenarioInvocation("EXTERNAL_deactivate_firststage_cost", NoArgs,
                             "activate_fix_constraints")
    /\ UNCHANGED <<config_vars, caller, i, xbars, history_vars,
                   subproblem_solves, num_so_far, results, arrivals, live_solution>>

\* line 1362
ActivateFixConstraints ==
    /\ pc = "activate_fix_constraints"
    /\ PerScenarioInvocation("EXTERNAL_activate_fix_constraints", NoArgs,
                             "seed")
    /\ UNCHANGED <<config_vars, caller, i, xbars, history_vars,
                   subproblem_solves, num_so_far, results, arrivals, live_solution>>

\* update_fix_constraints(fix_values), the first call of generate_cut
update_fix_constraints(fix_values) ==
    PerScenarioInvocation("EXTERNAL_update_fix_constraints", fix_values,
                          "solve_subproblems")

\* the history seeded without the user's bound
InitialBoundHistoryTrivial ==
    [k \in {0 - 1, 0} |->
        IF k = 0 THEN trivial_bound
        ELSE IF objective_sense = "minimize" THEN NegInf ELSE PosInf]

\* lines 1370-1413: the histories before the first iteration
InitialBoundHistory ==
    [k \in {0 - 1, 0} |->
        IF k = 0 THEN trivial_bound
        ELSE IF user_bound # None THEN user_bound[1]
        ELSE IF objective_sense = "minimize" THEN NegInf ELSE PosInf]

\* the loop with one iteration too many
LoopNextOffByOne(k) ==
    IF k <= max_iterations THEN "solve_master" ELSE "post_loop"

\* the for loop of line 1414 goes on to iteration k + 1 or ends
LoopNext(k) == IF k < max_iterations THEN "solve_master" ELSE "post_loop"

\* the seed cut generated when alpha is fixed
SeedCutWhenFixed ==
    /\ pc = "seed"
    /\ IF master_alpha_fixed
       THEN /\ update_fix_constraints(RootXbars)
            /\ xbars' = RootXbars
            /\ caller' = "seed"
            /\ UNCHANGED MASTER_bound_history
       ELSE /\ MASTER_bound_history' = InitialBoundHistory
            /\ pc' = LoopNext(0)
            /\ UNCHANGED <<xbars, caller, ret, ahs, pool_vars, instances>>
    /\ UNCHANGED <<config_vars, i, trivial_bound, OBJECTIVE_history,
                   incumbent_objective, best_master_bound, optimality_gap,
                   current_master_bound, alpha_value, master_alpha_fixed,
                   benders_cuts, seed_cuts, converged, warned, master_solves,
                   incumbent_cache, subproblem_solves, num_so_far, results, arrivals,
                   live_solution>>

\* lines 1363-1366: the seed cut is generated unless alpha is fixed
SeedCut ==
    /\ pc = "seed"
    /\ IF ~ master_alpha_fixed
       THEN /\ update_fix_constraints(RootXbars)
            /\ xbars' = RootXbars
            /\ caller' = "seed"
            /\ UNCHANGED MASTER_bound_history
       ELSE /\ MASTER_bound_history' = InitialBoundHistory
            /\ pc' = LoopNext(0)
            /\ UNCHANGED <<xbars, caller, ret, ahs, pool_vars, instances>>
    /\ UNCHANGED <<config_vars, i, trivial_bound, OBJECTIVE_history,
                   incumbent_objective, best_master_bound, optimality_gap,
                   current_master_bound, alpha_value, master_alpha_fixed,
                   benders_cuts, seed_cuts, converged, warned, master_solves,
                   incumbent_cache, subproblem_solves, num_so_far, results, arrivals,
                   live_solution>>

\* generate_cut, line 1257
SolveSubproblemsForCut ==
    /\ pc = "solve_subproblems"
    /\ SolveSubproblems("collect_cut_data")
    /\ UNCHANGED <<config_vars, caller, i, xbars, history_vars, num_so_far,
                   results, arrivals>>

\* collect_cut_data up to the first wait_any (lines 1193-1229), or the whole
\* local loop (lines 1244-1249)
CollectCutData ==
    /\ pc = "collect_cut_data"
    /\ IF distributed
       THEN LET handles == {ActionHandle("EXTERNAL_collect_cut_data", t, NoArgs) :
                               t \in ObjectNames}
            IN /\ queue' = queue \cup handles
               /\ ahs' = handles
               /\ results' = EmptyResults
               /\ num_so_far' = 0
               /\ pc' = "wait_any"
       ELSE /\ results' = [s \in Scenarios |->
                              EXTERNAL_collect_cut_data(s, instances[s])]
            /\ pc' = "generate_cut"
            /\ UNCHANGED <<queue, ahs, num_so_far>>
    /\ arrivals' = <<>>
    /\ UNCHANGED <<config_vars, ret, caller, i, xbars, history_vars,
                   subproblem_solves, completed, job_results,
                   instances, live_solution>>

\* a foreign job completes while collect_cut_data waits
ForeignCompletion ==
    /\ pc = "wait_any"
    /\ LET foreign == {h \in completed : h.fn = "foreign"}
           seen == {k \in DOMAIN arrivals : arrivals[k] = "foreign"}
           h == ForeignHandle(CHOOSE k \in 1..MaxForeign :
                                 /\ ForeignHandle(k) \notin completed
                                 /\ \A j \in 1..(k - 1) :
                                       ForeignHandle(j) \in completed)
       IN /\ Cardinality(foreign) + Cardinality(seen) < MaxForeign
          /\ completed' = completed \cup {h}
          /\ job_results' = Update(job_results, [k \in {h} |-> EmptyResults])
    /\ UNCHANGED <<config_vars, pc, ret, caller, i, xbars, history_vars,
                   subproblem_solves, collect_vars, queue, instances,
                   live_solution>>

\* solver_manager.wait_any(): any completed handle; the foreign ones are
\* alike and are returned in the order of their ids
WaitAnyChoice ==
    {h \in completed :
        h.fn = "foreign" => \A g \in completed : g.fn = "foreign" => h.id <= g.id}

\* the loop that counts every completion wait_any returns
CollectWaitAnyCountingAll(action_handle) ==
    /\ pc = "wait_any"
    /\ num_so_far < Cardinality(ahs)
    /\ action_handle \in completed
    /\ completed' = completed \ {action_handle}
    /\ job_results' = [h \in DOMAIN job_results \ {action_handle} |->
                          job_results[h]]
    /\ IF action_handle \notin ahs
       THEN /\ arrivals' = Append(arrivals, action_handle.target)
            /\ UNCHANGED results
       ELSE /\ results' = Update(results, job_results[action_handle])
            /\ arrivals' = Append(arrivals, action_handle.target)
    /\ num_so_far' = num_so_far + 1
    /\ pc' = IF num_so_far + 1 < Cardinality(ahs)
             THEN "wait_any" ELSE "generate_cut"
    /\ UNCHANGED <<config_vars, ret, caller, i, xbars, history_vars,
                   subproblem_solves, ahs, queue, instances, live_solution>>

\* the loop that keeps the results of the last handle only
CollectWaitAnyOverwriting(action_handle) ==
    /\ pc = "wait_any"
    /\ num_so_far < Cardinality(ahs)
    /\ action_handle \in completed
    /\ completed' = completed \ {action_handle}
    /\ job_results' = [h \in DOMAIN job_results \ {action_handle} |->
                          job_results[h]]
    /\ IF action_handle \notin ahs
       THEN /\ arrivals' = Append(arrivals, action_handle.target)
            /\ UNCHANGED <<results, num_so_far, pc>>
       ELSE /\ results' = job_results[action_handle]
            /\ arrivals' = Append(arrivals, action_handle.target)
            /\ num_so_far' = num_so_far + 1
            /\ pc' = IF num_so_far + 1 < Cardinality(ahs)
                     THEN "wait_any" ELSE "generate_cut"
    /\ UNCHANGED <<config_vars, ret, caller, i, xbars, history_vars,
                   subproblem_solves, ahs, queue, instances, live_solution>>

\* the loop that files a result under the position of its arrival
CollectWaitAnyByArrival(action_handle) ==
    /\ pc = "wait_any"
    /\ num_so_far < Cardinality(ahs)
    /\ action_handle \in completed
    /\ completed' = completed \ {action_handle}
    /\ job_results' = [h \in DOMAIN job_results \ {action_handle} |->
                          job_results[h]]
    /\ IF action_handle \notin ahs
       THEN /\ arrivals' = Append(arrivals, action_handle.target)
            /\ UNCHANGED <<results, num_so_far, pc>>
       ELSE /\ results' =
                  IF action_handle.target \in Scenarios
                  THEN Update(results,
                              [s \in {ScenarioList[num_so_far + 1]} |->
                                  job_results[action_handle]
                                             [action_handle.target]])
                  ELSE Update(results, job_results[action_handle])
            /\ arrivals' = Append(arrivals, action_handle.target)
            /\ num_so_far' = num_so_far + 1
            /\ pc' = IF num_so_far + 1 < Cardinality(ahs)
                     THEN "wait_any" ELSE "generate_cut"
    /\ UNCHANGED <<config_vars, ret, caller, i, xbars, history_vars,
                   subproblem_solves, ahs, queue, instances, live_solution>>

\* one turn of the loop of lines 1230-1241: wait_any returns a completed
\* handle; the loop ends when num_so_far reaches len(ahs)
CollectWaitAny(action_handle) ==
    /\ pc = "wait_any"
    /\ num_so_far < Cardinality(ahs)
    /\ action_handle \in completed
    /\ completed' = completed \ {action_handle}
    /\ job_results' = [h \in DOMAIN job_results \ {action_handle} |->
                          job_results[h]]
    /\ IF action_handle \notin ahs
       THEN /\ arrivals' = Append(arrivals, action_handle.target)
            /\ UNCHANGED <<results, num_so_far, pc>>
       ELSE /\ results' = Update(results, job_results[action_handle])
            /\ arrivals' = Append(arrivals, action_handle.target)
            /\ num_so_far' = num_so_far + 1
            /\ pc' = IF num_so_far + 1 < Cardinality(ahs)
                     THEN "wait_any" ELSE "generate_cut"
    /\ UNCHANGED <<config_vars, ret, caller, i, xbars, history_vars,
                   subproblem_solves, ahs, queue, instances, live_solution>>

\* lines 1260-1263 and 1368-1376: the seed cut is built and added, the
\* histories are set up
SeedCutAdd ==
    /\ pc = "generate_cut"
    /\ caller = "seed"
    /\ benders_cuts' = add_cut(benders_cuts, CutOf(xbars, results), FALSE)
    /\ seed_cuts' = Len(benders_cuts') - Len(benders_cuts)
    /\ MASTER_bound_history' = InitialBoundHistory
    /\ pc' = LoopNext(0)
    /\ caller' = "none"
    /\ results' = EmptyResults
    /\ arrivals' = <<>>
    /\ ahs' = {}
    /\ num_so_far' = 0
    /\ UNCHANGED <<config_vars, ret, i, xbars, trivial_bound,
                   OBJECTIVE_history, incumbent_objective, best_master_bound,
                   optimality_gap, current_master_bound, alpha_value,
                   master_alpha_fixed, converged, warned, master_solves,
                   incumbent_cache, subproblem_solves, pool_vars, instances,
                   live_solution>>

\* lines 1440-1447: the master bound of a master solution
MasterBound(sol) ==
    IF sol.gap # None
    THEN IF objective_sense = "minimize" THEN sol.objective - sol.gap[1]
                                         ELSE sol.objective + sol.gap[1]
    ELSE sol.objective

\* the master solve that leaves alpha as it is
SolveMasterKeepingAlpha(sol) ==
    /\ pc = "solve_master"
    /\ i' = i + 1
    /\ master_solves' = master_solves + 1
    /\ UNCHANGED master_alpha_fixed
    /\ current_master_bound' = MasterBound(sol)
    /\ alpha_value' = sol.alpha
    /\ MASTER_bound_history' =
          Update(MASTER_bound_history, [k \in {i + 1} |-> MasterBound(sol)])
    /\ xbars' = sol.xbars
    /\ update_fix_constraints(sol.xbars)
    /\ caller' = "iter"
    /\ UNCHANGED <<config_vars, trivial_bound, OBJECTIVE_history,
                   incumbent_objective, best_master_bound, optimality_gap,
                   benders_cuts, seed_cuts, converged, warned, incumbent_cache,
                   subproblem_solves, num_so_far, results, arrivals, live_solution>>

\* lines 1414-1453: the master is solved, its bound recorded, the trial
\* point extracted and sent to the subproblems
SolveMaster(sol) ==
    /\ pc = "solve_master"
    /\ i' = i + 1
    /\ master_solves' = master_solves + 1
    /\ master_alpha_fixed' = FALSE
    /\ current_master_bound' = MasterBound(sol)
    /\ alpha_value' = sol.alpha
    /\ MASTER_bound_history' =
          Update(MASTER_bound_history, [k \in {i + 1} |-> MasterBound(sol)])
    /\ xbars' = sol.xbars
    /\ update_fix_constraints(sol.xbars)
    /\ caller' = "iter"
    /\ UNCHANGED <<config_vars, trivial_bound, OBJECTIVE_history,
                   incumbent_objective, best_master_bound, optimality_gap,
                   benders_cuts, seed_cuts, converged, warned, incumbent_cache,
                   subproblem_solves, num_so_far, results, arrivals, live_solution>>

\* a master without solution that only ends the loop
MasterNoSolutionIgnored ==
    /\ pc = "solve_master"
    /\ i' = i + 1
    /\ master_solves' = master_solves + 1
    /\ pc' = "post_loop"
    /\ UNCHANGED <<config_vars, ret, caller, xbars, trivial_bound,
                   MASTER_bound_history, OBJECTIVE_history,
                   incumbent_objective, best_master_bound, optimality_gap,
                   current_master_bound, alpha_value, master_alpha_fixed,
                   benders_cuts, seed_cuts, converged, warned, incumbent_cache,
                   subproblem_solves, collect_vars, pool_vars, instances,
                   live_solution>>

\* lines 1431-1432: the master solver returned no solution
MasterNoSolution ==
    /\ pc = "solve_master"
    /\ i' = i + 1
    /\ master_solves' = master_solves + 1
    /\ pc' = "failed"
    /\ UNCHANGED <<config_vars, ret, caller, xbars, trivial_bound,
                   MASTER_bound_history, OBJECTIVE_history,
                   incumbent_objective, best_master_bound, optimality_gap,
                   current_master_bound, alpha_value, master_alpha_fixed,
                   benders_cuts, seed_cuts, converged, warned, incumbent_cache,
                   subproblem_solves, collect_vars, pool_vars, instances,
                   live_solution>>

\* the bound of the latest iteration alone
BestMasterBoundLatest(history) == history[MaxOf(DOMAIN history)]

\* lines 1471-1472
BestMasterBound(history) ==
    IF objective_sense = "minimize" THEN MaxOf(Values(history))
                                    ELSE MinOf(Values(history))

\* lines 1473-1474
BestIncumbent(history) ==
    IF objective_sense = "minimize" THEN MinOf(Values(history))
                                    ELSE MaxOf(Values(history))

\* the comparison with the senses swapped
ImprovesSwapped(incumbent, incumbent_prev) ==
    IF objective_sense = "minimize" THEN incumbent > incumbent_prev
                                    ELSE incumbent < incumbent_prev

\* the comparison that also accepts a tie
ImprovesOrTies(incumbent, incumbent_prev) ==
    IF objective_sense = "minimize" THEN incumbent <= incumbent_prev
                                    ELSE incumbent >= incumbent_prev

\* lines 1475-1480
Improves(incumbent, incumbent_prev) ==
    IF objective_sense = "minimize" THEN incumbent < incumbent_prev
                                    ELSE incumbent > incumbent_prev

\* the gap without the absolute value of the difference
OptimalityGapSigned(bound, incumbent) ==
    <<bound - incumbent, 1 + Abs(incumbent)>>

\* line 1482, as the ratio <<numerator, denominator>>
OptimalityGap(bound, incumbent) ==
    <<Abs(bound - incumbent), 1 + Abs(incumbent)>>

\* a test every gap passes
GapTestAlways(gap) == TRUE

\* the test with a strict comparison
GapTestStrict(gap) == ~ RatioLeq(percent_gap, gap)

\* line 1490
GapTest(gap) == RatioLeq(gap, percent_gap)

\* lines 1465-1468
\* the estimate that keeps the master's alpha
CurrentObjectiveWithAlpha(cut) ==
    current_master_bound
    + Sum([s \in Scenarios |-> Scaled(cut.ssc[s], Probability(s))], Scenarios)

CurrentObjective(cut) ==
    current_master_bound - alpha_value
    + Sum([s \in Scenarios |-> Scaled(cut.ssc[s], Probability(s))], Scenarios)

\* the iteration that adds its cut before the gap test
IterationFinishAddingFirst ==
    /\ pc = "generate_cut"
    /\ caller = "iter"
    /\ \E new_cut_info \in {CutOf(xbars, results)} :
       \E history \in {Update(OBJECTIVE_history,
                              [k \in {i} |->
                                  CurrentObjective(new_cut_info)])} :
       \E bound \in {BestMasterBound(MASTER_bound_history)} :
       \E incumbent \in {BestIncumbent(history)} :
       \E gap \in {OptimalityGap(bound, incumbent)} :
          /\ OBJECTIVE_history' = history
          /\ best_master_bound' = bound
          /\ incumbent_objective' = incumbent
          /\ incumbent_cache' =
                IF Improves(incumbent, incumbent_objective)
                THEN Some(live_solution) ELSE incumbent_cache
          /\ optimality_gap' = Some(gap)
          /\ IF GapTest(gap)
             THEN /\ converged' = TRUE
                  /\ pc' = "post_loop"
                  /\ benders_cuts' =
                        add_cut(benders_cuts, new_cut_info, FALSE)
             ELSE /\ benders_cuts' =
                        add_cut(benders_cuts, new_cut_info, FALSE)
                  /\ pc' = LoopNext(i)
                  /\ UNCHANGED converged
    /\ caller' = "none"
    /\ results' = EmptyResults
    /\ arrivals' = <<>>
    /\ ahs' = {}
    /\ num_so_far' = 0
    /\ UNCHANGED <<config_vars, ret, i, xbars, trivial_bound,
                   MASTER_bound_history, current_master_bound, alpha_value,
                   master_alpha_fixed, seed_cuts, warned, master_solves,
                   subproblem_solves, pool_vars, instances, live_solution>>

\* lines 1260-1263 and 1455-1497: the cut of the iteration is built, the
\* incumbent recorded and cached, the gap tested, the cut added
IterationFinish ==
    /\ pc = "generate_cut"
    /\ caller = "iter"
    /\ \E new_cut_info \in {CutOf(xbars, results)} :
       \E history \in {Update(OBJECTIVE_history,
                              [k \in {i} |->
                                  CurrentObjective(new_cut_info)])} :
       \E bound \in {BestMasterBound(MASTER_bound_history)} :
       \E incumbent \in {BestIncumbent(history)} :
       \E gap \in {OptimalityGap(bound, incumbent)} :
          /\ OBJECTIVE_history' = history
          /\ best_master_bound' = bound
          /\ incumbent_objective' = incumbent
          /\ incumbent_cache' =
                IF Improves(incumbent, incumbent_objective)
                THEN Some(live_solution) ELSE incumbent_cache
          /\ optimality_gap' = Some(gap)
          /\ IF GapTest(gap)
             THEN /\ converged' = TRUE
                  /\ pc' = "post_loop"
                  /\ UNCHANGED benders_cuts
             ELSE /\ benders_cuts' =
                        add_cut(benders_cuts, new_cut_info, FALSE)
                  /\ pc' = LoopNext(i)
                  /\ UNCHANGED converged
    /\ caller' = "none"
    /\ results' = EmptyResults
    /\ arrivals' = <<>>
    /\ ahs' = {}
    /\ num_so_far' = 0
    /\ UNCHANGED <<config_vars, ret, i, xbars, trivial_bound,
                   MASTER_bound_history, current_master_bound, alpha_value,
                   master_alpha_fixed, seed_cuts, warned, master_solves,
                   subproblem_solves, pool_vars, instances, live_solution>>

\* a restore that raises when nothing was cached
RestoreCachedSolutionsRaising(cache, live) ==
    IF cache = None
    THEN [solution |-> live, warning |-> FALSE, raised |-> TRUE]
    ELSE [solution |-> cache[1], warning |-> FALSE, raised |-> FALSE]

\* ph.restoreCachedSolutions(cache_id): the cached solution becomes the
\* scenario tree's solution; without a cached solution the solution stays
\* and a warning is shown
RestoreCachedSolutions(cache, live) ==
    IF cache = None
    THEN [solution |-> live, warning |-> TRUE, raised |-> FALSE]
    ELSE [solution |-> cache[1], warning |-> FALSE, raised |-> FALSE]

\* lines 1499-1510
RestoreIncumbent ==
    /\ pc = "post_loop"
    /\ LET restored == RestoreCachedSolutions(incumbent_cache, live_solution)
       IN /\ live_solution' = restored.solution
          /\ warned' = restored.warning
          /\ pc' = IF restored.raised THEN "failed" ELSE "done"
    /\ UNCHANGED <<config_vars, ret, caller, i, xbars, trivial_bound,
                   MASTER_bound_history, OBJECTIVE_history,
                   incumbent_objective, best_master_bound, optimality_gap,
                   current_master_bound, alpha_value, master_alpha_fixed,
                   benders_cuts, seed_cuts, converged, master_solves, incumbent_cache,
                   subproblem_solves, collect_vars, pool_vars, instances>>

Next ==
    \/ TrivialBoundSolve
    \/ InitializeForBenders
    \/ DeactivateFirststageCost
    \/ ActivateFixConstraints
    \/ SeedCut
    \/ SolveSubproblemsForCut
    \/ CollectCutData
    \/ \E h \in WaitAnyChoice : CollectWaitAny(h)
    \/ SeedCutAdd
    \/ \E sol \in MasterSolutions : SolveMaster(sol)
    \/ MasterNoSolution
    \/ IterationFinish
    \/ RestoreIncumbent
    \/ \E others \in SUBSET completed : WaitAll(others)
    \/ ForeignCompletion
    \/ \E h \in queue : WorkerRun(h)

Spec == Init /\ [][Next]_vars

----------------------------------------------------------------------------
(* add_cut on its own: calls of add_cut on an initialized master, with the *)
(* cuts generate_cut returns at the trial points and either value of       *)
(* per_bundle.                                                             *)

MaxCutPool == 3         \* add_cut is called while the pool is shorter

TrialPoints == {RootXbars} \cup {sol.xbars : sol \in MasterSolutions}

\* the cut data collect_cut_data returns once the subproblems are solved at x
CutDataAt(x) ==
    [s \in Scenarios |->
        EXTERNAL_collect_cut_data(
            s,
            SolveInstance(
                s,
                EXTERNAL_update_fix_constraints(
                    s,
                    EXTERNAL_activate_fix_constraints(
                        s,
                        EXTERNAL_deactivate_firststage_cost(s, NewInstance)),
                    x)))]

CutInit ==
    /\ problem = "sample"
    /\ master_mipgap = 0
    /\ objective_sense \in {"minimize", "maximize"}
    /\ multicuts \in 1..Len(ScenarioList)
    /\ per_bundle_arg \in BOOLEAN
    /\ distributed = FALSE
    /\ bundling = FALSE
    /\ PoolAtSolve
    /\ xbars \in TrialPoints
    /\ results = CutDataAt(xbars)
    /\ pc = "add_cut"
    /\ benders_cuts = <<>>
    /\ max_iterations = 0
    /\ percent_gap \in {<<1, 10000>>}
    /\ user_bound = None
    /\ ret = "none"
    /\ caller = "none"
    /\ i = 0
    /\ trivial_bound = 0
    /\ MASTER_bound_history = EmptyHistory
    /\ OBJECTIVE_history = EmptyHistory
    /\ incumbent_objective =
           IF objective_sense = "minimize" THEN PosInf ELSE NegInf
    /\ best_master_bound = 0
    /\ optimality_gap = None
    /\ current_master_bound = 0
    /\ alpha_value = 0
    /\ master_alpha_fixed = FALSE
    /\ seed_cuts = 0
    /\ converged = FALSE
    /\ warned = FALSE
    /\ master_solves = 0
    /\ subproblem_solves = 0
    /\ ahs = {}
    /\ num_so_far = 0
    /\ arrivals = <<>>
    /\ queue = {}
    /\ completed = {}
    /\ job_results = [h \in {} |-> EmptyResults]
    /\ instances = [s \in Scenarios |-> NewInstance]
    /\ live_solution = [solve |-> 0, iteration |-> 0]
    /\ incumbent_cache = None

\* what a call of add_cut leaves alone
add_cut_frame ==
    <<objective_sense, max_iterations, percent_gap, user_bound, distributed,
      bundling, multicuts, run_vars, pc, ret, caller, i, trivial_bound,
      MASTER_bound_history, OBJECTIVE_history, incumbent_objective,
      best_master_bound, optimality_gap, current_master_bound, alpha_value,
      master_alpha_fixed, seed_cuts, converged, warned, master_solves,
      subproblem_solves, ahs, num_so_far, arrivals, pool_vars, instances,
      live_solution, incumbent_cache>>

\* add_cut(benders_cut, per_bundle) with the cut of the trial point xbars
AddCutCall ==
    /\ pc = "add_cut"
    /\ Len(benders_cuts) < MaxCutPool
    /\ benders_cuts' =
          add_cut(benders_cuts, CutOf(xbars, results), per_bundle_arg)
    /\ UNCHANGED <<add_cut_frame, xbars, results, per_bundle_arg>>

\* the arguments of the next call: another cut, another per_bundle
NextCutArguments(xb, pb) ==
    /\ pc = "add_cut"
    /\ <<xb, pb>> # <<xbars, per_bundle_arg>>
    /\ xbars' = xb
    /\ results' = CutDataAt(xb)
    /\ per_bundle_arg' = pb
    /\ UNCHANGED <<add_cut_frame, benders_cuts>>

CutNext ==
    \/ AddCutCall
    \/ \E xb \in TrialPoints : \E pb \in BOOLEAN : NextCutArguments(xb, pb)

CutSpec == CutInit /\ [][CutNext]_vars

----------------------------------------------------------------------------
(* exec_runbenders: the worker pool is acquired, the algorithm is          *)
(* initialized and solve is run inside a try statement whose finally       *)
(* clause releases what was acquired.  The run starts where the solver     *)
(* manager has been created (line 1560).                                   *)

RequiredWorkers == {None, Some(1)}

options_vars ==
    <<objective_sense, max_iterations, percent_gap, user_bound, distributed,
      bundling, multicuts, per_bundle_arg, stages, phpyro_required_workers,
      phpyro_workers_timeout, problem, master_mipgap>>

solve_vars ==
    <<ret, caller, i, xbars, history_vars, subproblem_solves, collect_vars,
      pool_vars, instances, live_solution>>

ph_vars == <<ph_components, self_ph>>

\* the coordinator's variables before solve has done anything
CoordinatorAtStart ==
    /\ ret = "none"
    /\ caller = "none"
    /\ i = 0
    /\ xbars = RootXbars
    /\ trivial_bound = 0
    /\ MASTER_bound_history = EmptyHistory
    /\ OBJECTIVE_history = EmptyHistory
    /\ incumbent_objective =
           IF objective_sense = "minimize" THEN PosInf ELSE NegInf
    /\ best_master_bound = 0
    /\ optimality_gap = None
    /\ current_master_bound = 0
    /\ alpha_value = 0
    /\ master_alpha_fixed = FALSE
    /\ benders_cuts = <<>>
    /\ seed_cuts = 0
    /\ converged = FALSE
    /\ warned = FALSE
    /\ master_solves = 0
    /\ ahs = {}
    /\ num_so_far = 0
    /\ results = EmptyResults
    /\ arrivals = <<>>
    /\ queue = {}
    /\ completed = {}
    /\ job_results = [h \in {} |-> EmptyResults]
    /\ incumbent_cache = None

RunInit ==
    /\ problem = "sample"
    /\ master_mipgap = 0
    /\ objective_sense \in {"minimize", "maximize"}
    /\ max_iterations \in {0, 1}
    /\ percent_gap \in PercentGaps
    /\ user_bound = None
    /\ distributed \in BOOLEAN
    /\ bundling \in BOOLEAN
    /\ multicuts = 1
    /\ per_bundle_arg = FALSE
    /\ stages \in {2, 3}
    /\ phpyro_required_workers \in RequiredWorkers
    /\ phpyro_workers_timeout = WorkersTimeout
    /\ servers_expected = 0
    /\ timeout = None
    /\ server_pool = 0
    /\ elapsed = 0
    /\ acquired = FALSE
    /\ released = FALSE
    /\ ph_components = FALSE
    /\ self_ph = FALSE
    /\ pc = "collect_servers"
    /\ CoordinatorAtStart
    /\ subproblem_solves = 0
    /\ instances = [s \in Scenarios |-> NewInstance]
    /\ live_solution = [solve |-> 0, iteration |-> 0]

\* exec_runbenders going on to initialize without collect_servers
CollectServersSkipped ==
    /\ pc = "collect_servers"
    /\ pc' = "initialize"
    /\ UNCHANGED <<options_vars, servers_expected, timeout, server_pool,
                   elapsed, acquired, released,
                   ph_vars, solve_vars>>

\* lines 1562-1566: with phpyro, collect_servers calls acquire_servers
CollectServers ==
    /\ pc = "collect_servers"
    /\ IF distributed
       THEN /\ servers_expected' = collect_servers.servers_expected
            /\ timeout' = collect_servers.timeout
            /\ pc' = "acquire_servers"
       ELSE /\ pc' = "initialize"
            /\ UNCHANGED <<servers_expected, timeout>>
    /\ UNCHANGED <<options_vars, server_pool, elapsed, acquired, released,
                   ph_vars, solve_vars>>

\* a worker answers while acquire_servers waits
ServerJoins ==
    /\ pc = "acquire_servers"
    /\ server_pool < servers_expected
    /\ server_pool' = server_pool + 1
    /\ UNCHANGED <<options_vars, servers_expected, timeout, elapsed, acquired,
                   released, pc,
                   ph_vars, solve_vars>>

\* time passes while acquire_servers waits
Tick ==
    /\ pc = "acquire_servers"
    /\ server_pool < servers_expected
    /\ elapsed < MaxWait
    /\ timeout # None => elapsed < timeout[1]
    /\ elapsed' = elapsed + 1
    /\ UNCHANGED <<options_vars, servers_expected, timeout, server_pool,
                   acquired, released, pc,
                   ph_vars, solve_vars>>

\* acquire_servers returns with the workers asked for
AcquireServersReturns ==
    /\ pc = "acquire_servers"
    /\ server_pool = servers_expected
    /\ acquired' = TRUE
    /\ pc' = "initialize"
    /\ UNCHANGED <<options_vars, servers_expected, timeout, server_pool,
                   elapsed, released,
                   ph_vars, solve_vars>>

\* the timeout passes with fewer workers than asked for
AcquireServersTimesOut ==
    /\ pc = "acquire_servers"
    /\ timeout # None
    /\ elapsed >= timeout[1]
    /\ server_pool < servers_expected
    /\ pc' = "failed"
    /\ UNCHANGED <<options_vars, servers_expected, timeout, server_pool,
                   elapsed, acquired, released,
                   ph_vars, solve_vars>>

\* what benders.initialize can do: return, raise inside ph.initialize, or
\* raise after it, before line 982 stores ph in self._ph
InitializeOutcomes == {"returns", "ph.initialize raises", "raises"}

\* lines 1568-1574: BendersAlgorithm(options) and benders.initialize
Initialize(outcome) ==
    /\ pc = "initialize"
    /\ pc' = IF outcome = "returns" THEN "solve" ELSE "failed"
    /\ ph_components' = (outcome # "ph.initialize raises")
    /\ self_ph' = (outcome = "returns")
    /\ UNCHANGED <<options_vars, servers_expected, timeout, server_pool,
                   elapsed, acquired, released, solve_vars>>

\* ph.solve_subproblems raises: a subproblem has no solution
SubproblemSolveFails ==
    /\ pc \in {"solve", "solve_subproblems"}
    /\ pc' = "failed"
    /\ UNCHANGED <<options_vars, servers_expected, timeout, server_pool,
                   elapsed, acquired, released,
                   ph_vars, solve_vars>>

\* a finally clause that releases the workers only after solve has returned
FinallyAfterSolve ==
    /\ pc \in {"done", "failed"}
    /\ pc' = "exit"
    /\ IF distributed /\ pc = "done"
       THEN /\ released' = TRUE
            /\ server_pool' = 0
       ELSE UNCHANGED <<released, server_pool>>
    /\ ph_components' = IF self_ph THEN FALSE ELSE ph_components
    /\ UNCHANGED <<options_vars, servers_expected, timeout, elapsed, acquired,
                   self_ph, solve_vars>>

\* lines 1583-1608: the finally clause, reached when solve returns and when
\* anything in the try statement raises
Finally ==
    /\ pc \in {"done", "failed"}
    /\ pc' = "exit"
    /\ IF distributed
       THEN /\ released' = TRUE
            /\ server_pool' = 0
       ELSE UNCHANGED <<released, server_pool>>
    /\ ph_components' = IF self_ph THEN FALSE ELSE ph_components
    /\ UNCHANGED <<options_vars, servers_expected, timeout, elapsed, acquired,
                   self_ph, solve_vars>>

RunNext ==
    \/ CollectServers
    \/ ServerJoins
    \/ Tick
    \/ AcquireServersReturns
    \/ AcquireServersTimesOut
    \/ \E outcome \in InitializeOutcomes : Initialize(outcome)
    \/ SubproblemSolveFails
    \/ Finally
    \/ Next

RunSpec == RunInit /\ [][RunNext]_vars

----------------------------------------------------------------------------
(* initialize_for_benders on its own: the call of line 1359, on instances  *)
(* whose attribute "dual" holds any of the things it can hold.             *)

DualInit ==
    /\ problem = "sample"
    /\ master_mipgap = 0
    /\ objective_sense = "minimize"
    /\ max_iterations = 1
    /\ percent_gap \in {<<1, 10000>>}
    /\ user_bound = None
    /\ distributed \in BOOLEAN
    /\ bundling \in BOOLEAN
    /\ multicuts = 1
    /\ per_bundle_arg = FALSE
    /\ PoolAtSolve
    /\ pc = "initialize_for_benders"
    /\ CoordinatorAtStart
    /\ subproblem_solves = 1
    /\ \E slot \in [Scenarios -> DualSlots] :
          /\ \A s, t \in Scenarios : SharesDual(s, t) => slot[s] = slot[t]
          /\ instances = [s \in Scenarios |->
                            [SolveInstance(s, NewInstance)
                                EXCEPT !.dual_slot = slot[s]]]
    /\ live_solution = [solve |-> 1, iteration |-> 0]

DualNext ==
    \/ InitializeForBenders
    \/ \E h \in queue : WorkerRun(h)
    \/ \E others \in SUBSET completed : WaitAll(others)

DualSpec == DualInit /\ [][DualNext]_vars

----------------------------------------------------------------------------
(* The per-scenario methods of BendersAlgorithm called on their own, in    *)
(* any order, on subproblems that solve has prepared.                      *)

\* the instance after lines 1359-1362 of solve
PreparedInstance(s) ==
    EXTERNAL_activate_fix_constraints(
        s,
        EXTERNAL_deactivate_firststage_cost(
            s,
            EXTERNAL_initialize_for_benders(s, NewInstance)))

CallInit ==
    /\ problem = "sample"
    /\ master_mipgap = 0
    /\ objective_sense = "minimize"
    /\ max_iterations = 0
    /\ percent_gap \in {<<1, 10000>>}
    /\ user_bound = None
    /\ distributed \in BOOLEAN
    /\ bundling \in BOOLEAN
    /\ multicuts = 1
    /\ per_bundle_arg = FALSE
    /\ PoolAtSolve
    /\ pc = "call"
    /\ CoordinatorAtStart
    /\ subproblem_solves = 0
    /\ instances = [s \in Scenarios |-> PreparedInstance(s)]
    /\ live_solution = [solve |-> 0, iteration |-> 0]

\* what a call of one of the methods leaves alone
call_frame ==
    <<config_vars, i, xbars, history_vars, subproblem_solves, num_so_far,
      results, arrivals, live_solution>>

\* deactivate_firststage_cost (lines 987-1020)
Call_deactivate_firststage_cost ==
    /\ pc = "call"
    /\ caller' = "deactivate_firststage_cost"
    /\ PerScenarioInvocation("EXTERNAL_deactivate_firststage_cost", NoArgs,
                             "call")
    /\ UNCHANGED call_frame

\* activate_firststage_cost (lines 1022-1056)
Call_activate_firststage_cost ==
    /\ pc = "call"
    /\ caller' = "activate_firststage_cost"
    /\ PerScenarioInvocation("EXTERNAL_activate_firststage_cost", NoArgs,
                             "call")
    /\ UNCHANGED call_frame

\* activate_fix_constraints (lines 1058-1092)
Call_activate_fix_constraints ==
    /\ pc = "call"
    /\ caller' = "activate_fix_constraints"
    /\ PerScenarioInvocation("EXTERNAL_activate_fix_constraints", NoArgs,
                             "call")
    /\ UNCHANGED call_frame

\* deactivate_fix_constraints (lines 1094-1117): with phpyro the function
\* is sent to every scenario name, bundles or not
Call_deactivate_fix_constraints ==
    /\ pc = "call"
    /\ caller' = "deactivate_fix_constraints"
    /\ IF distributed
       THEN LET handles ==
                    {ActionHandle("EXTERNAL_deactivate_fix_constraints", s,
                                  NoArgs) : s \in Scenarios}
            IN /\ queue' = queue \cup handles
               /\ ahs' = handles
               /\ pc' = "wait_all"
               /\ ret' = "call"
               /\ UNCHANGED <<instances, completed, job_results>>
       ELSE /\ instances' =
                  InvokeEach("EXTERNAL_deactivate_fix_constraints",
                             ScenarioList, instances, NoArgs)
            /\ pc' = IF Raised(instances', Scenarios) THEN "failed"
                     ELSE "call"
            /\ UNCHANGED <<ahs, ret, pool_vars>>
    /\ UNCHANGED call_frame

\* initialize_for_benders (lines 1119-1153)
Call_initialize_for_benders ==
    /\ pc = "call"
    /\ caller' = "initialize_for_benders"
    /\ PerScenarioInvocation("EXTERNAL_initialize_for_benders", NoArgs,
                             "call")
    /\ UNCHANGED call_frame

\* update_fix_constraints(fix_values) (lines 1155-1191)
Call_update_fix_constraints(fix_values) ==
    /\ pc = "call"
    /\ caller' = "update_fix_constraints"
    /\ PerScenarioInvocation("EXTERNAL_update_fix_constraints", fix_values,
                             "call")
    /\ UNCHANGED call_frame

CallNext ==
    \/ Call_initialize_for_benders
    \/ \E fix_values \in TrialPoints :
          Call_update_fix_constraints(fix_values)
    \/ Call_deactivate_firststage_cost
    \/ Call_activate_firststage_cost
    \/ Call_activate_fix_constraints
    \/ Call_deactivate_fix_constraints
    \/ \E h \in queue : WorkerRun(h)
    \/ \E others \in SUBSET completed : WaitAll(others)

CallSpec == CallInit /\ [][CallNext]_vars

----------------------------------------------------------------------------
(* solve with a master solver that answers from the cuts it holds: the     *)
(* master (lines 940-980) minimizes first-stage cost + master_alpha over   *)
(* the first-stage variables subject to the cuts of benders_cuts.  The     *)
(* solver stops at any solution within master_mipgap of the optimum and    *)
(* reports the distance it left as the solution's gap.                     *)

XMax == 10              \* x lies in 0..XMax

MasterPoints == {Point(a, 0) : a \in 0..XMax}

\* the left-hand side of one cut at x: the sum of its scenario terms
CutValue(c, x) ==
    Sum([s \in DOMAIN c.expr |->
            c.expr[s].const
            + Sum([v \in VariableIds |-> c.expr[s].coef[v] * x[v]],
                  VariableIds)],
        DOMAIN c.expr)

\* the least master_alpha the cuts allow at x
AlphaAt(cuts, x) == MaxOf({CutValue(cuts[k], x) : k \in DOMAIN cuts})

\* line 977: the master objective, first-stage cost + master_alpha
MasterValue(cuts, x) == FirstStageCost(x) + AlphaAt(cuts, x)

MasterOptimum(cuts) == MinOf({MasterValue(cuts, x) : x \in MasterPoints})

\* the solutions the master solver may load under options.mipgap (line 1425)
MasterOptima(cuts) ==
    { [objective |-> MasterValue(cuts, x),
       alpha |-> AlphaAt(cuts, x),
       gap |-> IF MasterValue(cuts, x) = MasterOptimum(cuts) THEN None
               ELSE Some(MasterValue(cuts, x) - MasterOptimum(cuts)),
       xbars |-> x] :
      x \in {y \in MasterPoints :
                MasterValue(cuts, y) - MasterOptimum(cuts) <= master_mipgap} }

\* the cost of the undecomposed problem at x
TrueObjective(x) ==
    FirstStageCost(x)
    + Sum([s \in Scenarios |-> Scaled(RecourseCost(s, x), Probability(s))],
          Scenarios)

\* the optimum of the undecomposed problem
MonolithicOptimum == MinOf({TrueObjective(x) : x \in MasterPoints})

ExactInit ==
    /\ problem \in {"one", "claimed"}
    /\ master_mipgap \in {0, 1}
    /\ objective_sense = "minimize"
    /\ max_iterations \in 0..MaxIterations
    /\ percent_gap \in {<<1, 10000>>}
    /\ user_bound = None
    /\ distributed \in BOOLEAN
    /\ bundling \in BOOLEAN
    /\ multicuts = 1
    /\ per_bundle_arg = FALSE
    /\ PoolAtSolve
    /\ pc = "solve"
    /\ CoordinatorAtStart
    /\ subproblem_solves = 0
    /\ instances = [s \in Scenarios |-> NewInstance]
    /\ live_solution = [solve |-> 0, iteration |-> 0]

ExactNext ==
    \/ TrivialBoundSolve
    \/ InitializeForBenders
    \/ DeactivateFirststageCost
    \/ ActivateFixConstraints
    \/ SeedCut
    \/ SolveSubproblemsForCut
    \/ CollectCutData
    \/ \E h \in WaitAnyChoice : CollectWaitAny(h)
    \/ SeedCutAdd
    \/ \E sol \in MasterOptima(benders_cuts) : SolveMaster(sol)
    \/ IterationFinish
    \/ RestoreIncumbent
    \/ \E others \in SUBSET completed : WaitAll(others)
    \/ ForeignCompletion
    \/ \E h \in queue : WorkerRun(h)

ExactSpec == ExactInit /\ [][ExactNext]_vars

\* the coordinator and the workers keep running while they can
FairSpec == Spec /\ WF_vars(Next)

----------------------------------------------------------------------------
(* Properties.                                                             *)

GapComputed == optimality_gap # None

\* the scenario tree holds what the restore of the cache leaves
Restored == incumbent_cache # None => live_solution = incumbent_cache[1]

\* C1: once the gap computed at an iteration is at most the tolerance, the
\* loop has ended as converged, and no master solve, subproblem solve or
\* cut addition follows.
C1_ConvergedLoopExits ==
    [][(GapComputed /\ RatioLeq(optimality_gap[1], percent_gap))
         => /\ converged
            /\ pc \in {"post_loop", "done"}
            /\ master_solves' = master_solves
            /\ subproblem_solves' = subproblem_solves
            /\ benders_cuts' = benders_cuts
            /\ \A h \in queue' : h \in queue]_vars

C1_Witness ==
    /\ pc = "done"
    /\ converged
    /\ i >= 1
    /\ i < max_iterations
    /\ RatioLeq(optimality_gap[1], percent_gap)

\* C2: solve always ends; it makes at most max_iterations master solves; a
\* run that ends normally without convergence has made exactly
\* max_iterations iterations and has restored the incumbent.
C2_Terminates ==
    /\ <>(pc \in {"done", "failed"})
    /\ [](master_solves <= max_iterations)
    /\ []((pc = "done" /\ ~ converged)
            => /\ i = max_iterations
               /\ master_solves = max_iterations
               /\ DOMAIN OBJECTIVE_history = 1..max_iterations
               /\ Restored)

C2_Witness ==
    /\ pc = "done"
    /\ ~ converged
    /\ max_iterations >= 2
    /\ i = max_iterations
    /\ Restored

\* C3: from one gap test to the next the best bound does not decrease under
\* minimize and does not increase under maximize.
C3_BestBoundMonotone ==
    [][(GapComputed /\ optimality_gap' # None)
         => IF objective_sense = "minimize"
            THEN best_master_bound' >= best_master_bound
            ELSE best_master_bound' <= best_master_bound]_vars

C3_Witness ==
    /\ objective_sense = "minimize"
    /\ 2 \in DOMAIN OBJECTIVE_history
    /\ MASTER_bound_history[2] < MASTER_bound_history[1]
    /\ best_master_bound > MASTER_bound_history[2]

\* C4: the computed gap is not negative, and it is 0 exactly when the best
\* bound equals the best incumbent.
C4_GapNonNegative ==
    GapComputed
      => /\ optimality_gap[1][2] > 0
         /\ optimality_gap[1][1] >= 0
         /\ (optimality_gap[1][1] = 0
               <=> best_master_bound = incumbent_objective)

C4_Witness ==
    /\ GapComputed
    /\ best_master_bound < incumbent_objective
    /\ optimality_gap[1][1] > 0

\* C5: when solve has finished after at least one iteration, the scenario
\* tree holds the solution of an iteration whose objective is the best of
\* all recorded objectives.
C5_BestIncumbentRestored ==
    (pc = "done" /\ DOMAIN OBJECTIVE_history # {})
      => /\ live_solution.iteration \in DOMAIN OBJECTIVE_history
         /\ live_solution.solve = live_solution.iteration + 1 + seed_cuts
         /\ \A k \in DOMAIN OBJECTIVE_history :
               IF objective_sense = "minimize"
               THEN OBJECTIVE_history[live_solution.iteration]
                      <= OBJECTIVE_history[k]
               ELSE OBJECTIVE_history[live_solution.iteration]
                      >= OBJECTIVE_history[k]

C5_Witness ==
    /\ pc = "done"
    /\ objective_sense = "minimize"
    /\ 2 \in DOMAIN OBJECTIVE_history
    /\ i = 2
    /\ OBJECTIVE_history[2] > OBJECTIVE_history[1]
    /\ live_solution.iteration = 1

\* C6: the incumbent cache is overwritten by a step exactly when that step
\* records an objective strictly better than every objective recorded
\* before; the new snapshot is the current solution.
C6_CacheOnStrictImprovement ==
    [][/\ (incumbent_cache' # incumbent_cache
           <=> /\ DOMAIN OBJECTIVE_history' # DOMAIN OBJECTIVE_history
               /\ \A k \in DOMAIN OBJECTIVE_history :
                     IF objective_sense = "minimize"
                     THEN OBJECTIVE_history'[i] < OBJECTIVE_history[k]
                     ELSE OBJECTIVE_history'[i] > OBJECTIVE_history[k])
       /\ (incumbent_cache' # incumbent_cache
           => incumbent_cache' = Some(live_solution))]_vars

C6_Witness ==
    /\ 2 \in DOMAIN OBJECTIVE_history
    /\ OBJECTIVE_history[2] = OBJECTIVE_history[1]
    /\ incumbent_cache # None
    /\ incumbent_cache[1].iteration = 1

\* C7: with no snapshot in the cache the restore does not fail, leaves the
\* solution of the last solve in place and shows a warning; a run with
\* max_iterations = 0 does not fail.
C7_RestoreWithoutSnapshot ==
    /\ max_iterations = 0 => pc # "failed"
    /\ (pc = "done" /\ incumbent_cache = None)
         => /\ warned
            /\ live_solution.solve = subproblem_solves

C7_Witness ==
    /\ pc = "done"
    /\ max_iterations = 0
    /\ incumbent_cache = None
    /\ warned
    /\ subproblem_solves = 2

\* C8: in distributed mode the cut is built only when every job dispatched
\* by collect_cut_data has been returned by wait_any; foreign completions
\* do not count; the mapping has an entry for every scenario.
C8_FanInBarrier ==
    (distributed /\ pc = "generate_cut")
      => /\ \A h \in queue \cup completed :
               h.fn # "EXTERNAL_collect_cut_data"
         /\ {arrivals[k] : k \in DOMAIN arrivals} \ {"foreign"} = ObjectNames
         /\ Cardinality({k \in DOMAIN arrivals : arrivals[k] # "foreign"})
              = Cardinality(ObjectNames)
         /\ DOMAIN results = Scenarios

C8_Witness ==
    /\ distributed
    /\ ~ bundling
    /\ pc = "generate_cut"
    /\ \E k \in DOMAIN arrivals : arrivals[k] = "foreign"
    /\ DOMAIN results = Scenarios

\* the cut data of every scenario, whatever the arrival order
ExpectedCutData ==
    [s \in Scenarios |-> EXTERNAL_collect_cut_data(s, instances[s])]

\* C9: the cut generate_cut builds and the inequality add_cut appends are
\* determined by the scenarios' results, whatever the order of arrival.
C9_ArrivalOrderIrrelevant ==
    [][pc = "generate_cut"
         => /\ CutOf(xbars, results) = CutOf(xbars, ExpectedCutData)
            /\ (benders_cuts' # benders_cuts
                  => benders_cuts'
                       = add_cut(benders_cuts,
                                 CutOf(xbars, ExpectedCutData),
                                 FALSE))]_vars

C9_Witness ==
    /\ pc = "generate_cut"
    /\ arrivals \in {<<"Scenario2", "Scenario1">>,
                     <<"Scenario2", "foreign", "Scenario1">>}
    /\ results["Scenario1"] # results["Scenario2"]

SolveStarted ==
    \/ \E h \in queue \cup completed : h.fn = "solve"
    \/ pc \in {"collect_cut_data", "wait_any", "generate_cut"}

\* C10: while a cut is generated, a subproblem solve is started only when
\* every scenario's fixing parameters hold the trial point of this call and
\* no update job is outstanding; every subproblem is solved at that point.
C10_SolveAfterUpdate ==
    (caller # "none" /\ SolveStarted)
      => /\ \A h \in queue \cup completed :
               h.fn # "EXTERNAL_update_fix_constraints"
         /\ \A s \in Scenarios :
               /\ instances[s].fix_value = xbars
               /\ instances[s].solved_at \in {Some(xbars)}
                    \/ \E h \in queue : /\ h.fn = "solve"
                                        /\ s \in TargetScenarios(h.target)

C10_Witness ==
    /\ distributed
    /\ ~ bundling
    /\ caller = "iter"
    /\ xbars # RootXbars
    /\ \E h \in queue : h.fn = "solve"
    /\ \E s \in Scenarios : instances[s].solved_at = Some(xbars)

\* a job of this run that a worker has not run yet, or whose completion the
\* coordinator has not taken yet
Outstanding == queue \cup {h \in completed : h.fn # "foreign"}

\* C11: a step that starts a master solve is taken by the coordinator alone:
\* it is one solve, and no job dispatched to the worker pool (fix-value
\* update, subproblem solve, cut-data collection) is outstanding.
C11_MasterSolveAlone ==
    [][master_solves' # master_solves
         => /\ master_solves' = master_solves + 1
            /\ pc = "solve_master"
            /\ Outstanding = {}
            /\ ahs = {}]_vars

C11_Witness ==
    /\ distributed
    /\ ~ bundling
    /\ master_solves = 2
    /\ subproblem_solves >= 3
    /\ Outstanding # {}

\* C12: what collect_cut_data has gathered through the worker pool when it
\* returns is the mapping the local loop returns for the same scenario
\* tree, trial point and subproblem states, with and without bundles.
C12_DistributedAsLocal ==
    (distributed /\ pc = "generate_cut")
      => /\ \A name \in Scenarios :
               /\ instances[name].fix_value = xbars
               /\ instances[name].solved_at = Some(xbars)
         /\ results = ExpectedCutData

C12_Witness ==
    /\ distributed
    /\ bundling
    /\ pc = "generate_cut"
    /\ caller = "iter"
    /\ xbars = Point(0, 0)
    /\ results = ExpectedCutData
    /\ results["Scenario1"] # results["Scenario2"]

\* C13: a step that changes the cut pool appends to it and leaves the cuts
\* it held in place; it is a step of the coordinator, taken when the cut
\* data of every scenario has been gathered and no job is outstanding.
C13_CutPoolAppendOnly ==
    [][benders_cuts' # benders_cuts
         => /\ Len(benders_cuts') > Len(benders_cuts)
            /\ SubSeq(benders_cuts', 1, Len(benders_cuts)) = benders_cuts
            /\ pc = "generate_cut"
            /\ DOMAIN results = Scenarios
            /\ distributed => num_so_far = Cardinality(ahs)
            /\ Outstanding = {}
            /\ instances' = instances]_vars

C13_Witness ==
    /\ distributed
    /\ Len(benders_cuts) = 3
    /\ benders_cuts[1] # benders_cuts[2]
    /\ benders_cuts[2] # benders_cuts[3]

\* C14: an iteration that ends adds exactly one cut when its gap test fails
\* and none when it succeeds; a run that converged at iteration k has added
\* k - 1 iteration cuts, a run that stopped at max_iterations has added
\* max_iterations of them, the last after the last master solve.
C14_OneCutPerFailedTest ==
    /\ [][DOMAIN OBJECTIVE_history' # DOMAIN OBJECTIVE_history
            => IF RatioLeq(optimality_gap'[1], percent_gap)
               THEN benders_cuts' = benders_cuts
               ELSE /\ Len(benders_cuts') = Len(benders_cuts) + 1
                    /\ master_solves' = master_solves]_vars
    /\ [](pc = "done"
            => Len(benders_cuts) - seed_cuts
                 = IF converged THEN i - 1 ELSE max_iterations)

C14_Witness ==
    /\ pc = "done"
    /\ converged
    /\ i = 2
    /\ Len(benders_cuts) - seed_cuts = 1

\* the histories are set up and no master solve has been made
BeforeFirstIteration ==
    /\ DOMAIN MASTER_bound_history # {}
    /\ master_solves = 0

\* C15 as stated: before the first iteration a seed cut has been added when
\* alpha starts fixed, and none has been generated when alpha starts free.
C15_SeedCutWhenAlphaFixed ==
    BeforeFirstIteration
      => IF master_alpha_fixed
         THEN Len(benders_cuts) = 1 /\ subproblem_solves = 2
         ELSE Len(benders_cuts) = 0 /\ subproblem_solves = 1

\* C15, amended: before the first iteration a seed cut generated at the
\* root's initial trial point has been added when alpha starts free, and no
\* seed cut has been generated when alpha starts fixed.
C15_SeedCutWhenAlphaFree ==
    BeforeFirstIteration
      => IF ~ master_alpha_fixed
         THEN /\ Len(benders_cuts) = 1
              /\ subproblem_solves = 2
              /\ xbars = RootXbars
              /\ \A s \in Scenarios : instances[s].solved_at = Some(RootXbars)
              /\ benders_cuts[1].expr
                   = CutExpression(CutOf(RootXbars, ExpectedCutData),
                                   Scenarios)
         ELSE /\ Len(benders_cuts) = 0
              /\ subproblem_solves = 1
              /\ \A s \in Scenarios : instances[s].solved_at = None

C15_Witness ==
    /\ BeforeFirstIteration
    /\ ~ master_alpha_fixed
    /\ Len(benders_cuts) = 1
    /\ pc = "solve_master"

\* C16: a master solve made while alpha is fixed is the one of iteration 1
\* and finds the cut pool empty; it frees alpha, alpha stays free, and alpha
\* is fixed at no later iteration.
C16_AlphaFreedAtFirstIteration ==
    /\ [][master_solves' # master_solves
            => /\ master_alpha_fixed => (benders_cuts = <<>> /\ i' = 1)
               /\ pc' # "failed" => ~ master_alpha_fixed']_vars
    /\ [][~ master_alpha_fixed => ~ master_alpha_fixed']_vars
    /\ [](master_alpha_fixed => (i <= 1 /\ master_solves <= 1))

C16_Witness ==
    /\ seed_cuts = 0
    /\ master_solves = 2
    /\ ~ master_alpha_fixed
    /\ Len(benders_cuts) = 1

\* the scenarios whose number in the scenario list is b modulo multicuts
BundleOf(b) ==
    {s \in Scenarios :
        \E n \in DOMAIN ScenarioList :
            ScenarioList[n] = s /\ (n - 1) % multicuts = b}

\* C17: a call of add_cut with per_bundle true appends multicuts
\* inequalities, the one of bundle b over bundle_alpha[b] and the scenarios
\* of bundle b only; with per_bundle false it appends one inequality over
\* master_alpha and all scenarios; the cuts of the pool stay as they are.
C17_AddCutAppends ==
    [][benders_cuts' # benders_cuts
         => LET n == Len(benders_cuts)
            IN /\ SubSeq(benders_cuts', 1, n) = benders_cuts
               /\ IF per_bundle_arg
                  THEN /\ Len(benders_cuts') = n + multicuts
                       /\ \A b \in 0..(multicuts - 1) :
                             /\ benders_cuts'[n + b + 1].alpha
                                  = <<"bundle_alpha", b>>
                             /\ DOMAIN benders_cuts'[n + b + 1].expr
                                  = BundleOf(b)
                  ELSE /\ Len(benders_cuts') = n + 1
                       /\ benders_cuts'[n + 1].alpha = <<"master_alpha">>
                       /\ DOMAIN benders_cuts'[n + 1].expr = Scenarios]_vars

C17_Witness ==
    /\ pc = "add_cut"
    /\ multicuts = 2
    /\ Len(benders_cuts) = 3
    /\ benders_cuts[1].alpha = <<"master_alpha">>
    /\ benders_cuts[2].alpha = <<"bundle_alpha", 0>>
    /\ benders_cuts[3].alpha = <<"bundle_alpha", 1>>
    /\ DOMAIN benders_cuts[3].expr = {"Scenario2"}

\* the value of a cut expression at the point x of the master variables
ValueAt(expr, x) ==
    Sum([s \in DOMAIN expr |->
           expr[s].const
           + Sum([v \in VariableIds |-> expr[s].coef[v] * x[v]],
                 VariableIds)],
        DOMAIN expr)

\* sum over the scenarios of S of prob * (SSC + sum_v dual_v * (x_v - xbar_v))
\* for the cut data cut_data gathered at the trial point xb
CutBody(S, cut_data, xb, x) ==
    Sum([s \in S |->
           Scaled(cut_data[s].SSC
                  + Sum([v \in VariableIds |->
                           cut_data[s].duals[v] * (x[v] - xb[v])],
                        VariableIds),
                  Probability(s))],
        S)

\* C18: every inequality a call of add_cut appends has, at every point x,
\* the body  sum over its scenarios of
\* prob_s * (SSC_s + sum_v dual_{s,v} * (x_v - xbar_v))  minus its
\* cut-storage variable, bounded <= 0 under minimize and >= 0 under
\* maximize, with xbar the trial point of the cut.
C18_CutBody ==
    [][\A k \in (Len(benders_cuts) + 1)..Len(benders_cuts') :
          /\ \A x \in TrialPoints :
                ValueAt(benders_cuts'[k].expr, x)
                  = CutBody(DOMAIN benders_cuts'[k].expr, results, xbars, x)
          /\ benders_cuts'[k].alpha[1] \in {"master_alpha", "bundle_alpha"}
          /\ benders_cuts'[k].bound
               = IF objective_sense = "minimize" THEN "<= 0" ELSE ">= 0"]_vars

C18_Witness ==
    /\ pc = "add_cut"
    /\ objective_sense = "maximize"
    /\ Len(benders_cuts) = 2
    /\ benders_cuts[2].bound = ">= 0"
    /\ benders_cuts[2].alpha = <<"bundle_alpha", 1>>
    /\ benders_cuts[2].expr["Scenario2"].coef["x1"] # 0
    /\ benders_cuts[2].expr["Scenario2"].const # 0

\* C19: with multicuts > 1 every cut addition of solve, for the seed cut
\* and for the cut of an iteration, appends one inequality per bundle, the
\* one of bundle b over bundle_alpha[b].
C19_SolveAddsCutPerBundle ==
    [][(multicuts > 1 /\ benders_cuts' # benders_cuts)
         => /\ Len(benders_cuts') = Len(benders_cuts) + multicuts
            /\ \A b \in 0..(multicuts - 1) :
                  benders_cuts'[Len(benders_cuts) + b + 1].alpha
                    = <<"bundle_alpha", b>>]_vars

\* the sum of the expressions of a sequence of inequalities, as its constant
\* part and its coefficient of each master variable
Total(ineqs) ==
    [const |-> Sum([k \in DOMAIN ineqs |->
                      Sum([s \in DOMAIN ineqs[k].expr |->
                             ineqs[k].expr[s].const],
                          DOMAIN ineqs[k].expr)],
                   DOMAIN ineqs),
     coef |-> [v \in VariableIds |->
                 Sum([k \in DOMAIN ineqs |->
                        Sum([s \in DOMAIN ineqs[k].expr |->
                               ineqs[k].expr[s].coef[v]],
                            DOMAIN ineqs[k].expr)],
                     DOMAIN ineqs)]]

\* C20: for one cut and any multicuts from 1 to the number of scenarios,
\* the bodies without alpha of the inequalities a per-bundle call appends
\* add up to the body without alpha of the inequality an aggregate call
\* appends, and the other way round.
C20_BundleCutsSumToAggregate ==
    [][benders_cuts' # benders_cuts
         => Total(SubSeq(benders_cuts', Len(benders_cuts) + 1,
                         Len(benders_cuts')))
              = Total(add_cut(<<>>, CutOf(xbars, results),
                              ~ per_bundle_arg))]_vars

C20_Witness ==
    /\ pc = "add_cut"
    /\ multicuts = 2
    /\ per_bundle_arg
    /\ Len(benders_cuts) = 2
    /\ benders_cuts[1].alpha = <<"bundle_alpha", 0>>
    /\ Total(<<benders_cuts[1]>>) # Total(<<benders_cuts[2]>>)
    /\ Total(<<benders_cuts[1]>>).const # 0

----------------------------------------------------------------------------
(* The cut bundles, the duals of the cut data, a master without solution.  *)

\* C21: the cut bundles of initialize partition the scenarios: the scenario
\* at position k of the scenario list, counted from 0, is in the bundle
\* k mod multicuts and in no other, and with 1 <= multicuts <= number of
\* scenarios no bundle is empty.
C21_CutBundlesPartition ==
    /\ \A k \in DOMAIN ScenarioList :
          {b \in 0..(multicuts - 1) :
              ScenarioList[k] \in PYSP_BENDERS_CUT_BUNDLES(b)}
            = {(k - 1) % multicuts}
    /\ \A b \in 0..(multicuts - 1) : PYSP_BENDERS_CUT_BUNDLES(b) # {}

C21_Witness ==
    /\ pc = "add_cut"
    /\ multicuts = 2
    /\ per_bundle_arg
    /\ Len(benders_cuts) = 2
    /\ DOMAIN benders_cuts[1].expr = {"Scenario1"}
    /\ DOMAIN benders_cuts[2].expr = {"Scenario2"}

\* C22: the dual collect_cut_data reports for a scenario and a variable is
\* the dual the solver left, times the probability of the scenario's bundle
\* over the probability of the scenario when the scenario tree has bundles,
\* and the dual the solver left, as it is, when it has none.
C22_DualScaling ==
    pc = "generate_cut"
      => \A s \in Scenarios : \A v \in VariableIds :
            IF bundling
            THEN \A b \in Bundles :
                    s \in BundleScenarios(b)
                      => results[s].duals[v] * BundleProbability(b)[2]
                             * Probability(s)[1]
                           = instances[s].dual[v] * BundleProbability(b)[1]
                               * Probability(s)[2]
            ELSE results[s].duals[v] = instances[s].dual[v]

C22_Witness ==
    /\ pc = "generate_cut"
    /\ bundling
    /\ instances["Scenario1"].dual["x2"] = 1
    /\ results["Scenario1"].duals["x2"] = 2

\* a master solve that recorded no bound
MasterFailed ==
    master_solves # Cardinality(DOMAIN MASTER_bound_history \ {0 - 1, 0})

\* C23: when the master solve of iteration i returns no solution the run
\* has failed: no bound and no objective is recorded for i, nothing is
\* dispatched, and from then on there is no master solve, no subproblem
\* solve, no new cut and no report of convergence.
C23_MasterFailureAborts ==
    /\ [](MasterFailed
            => /\ pc = "failed"
               /\ ~ converged
               /\ i = master_solves
               /\ i \notin DOMAIN MASTER_bound_history
               /\ i \notin DOMAIN OBJECTIVE_history
               /\ Len(benders_cuts) = seed_cuts + i - 1
               /\ Outstanding = {})
    /\ [][MasterFailed
            => UNCHANGED <<master_solves, subproblem_solves, benders_cuts,
                           MASTER_bound_history, queue, converged, pc>>]_vars

C23_Witness ==
    /\ MasterFailed
    /\ pc = "failed"
    /\ i = 2
    /\ DOMAIN MASTER_bound_history = {0 - 1, 0, 1}
    /\ Len(benders_cuts) = seed_cuts + 1

----------------------------------------------------------------------------
(* exec_runbenders and the worker pool.                                    *)

\* C24: with phpyro, whenever exec_runbenders is left, after solve has
\* returned or after the acquisition, the initialization or a solve has
\* failed, the workers have been released; and it is never left otherwise
\* than through the finally clause.
C24_WorkersReleased ==
    /\ (pc = "exit" /\ distributed) => (released /\ server_pool = 0)
    /\ pc \in {"done", "failed"} => ENABLED Finally
    /\ released => pc = "exit"

C24_Witness ==
    /\ pc = "exit"
    /\ distributed
    /\ released
    /\ MasterFailed
    /\ acquired

\* C25 as stated: acquire_servers never waits longer than the timeout of
\* the options, whatever the options.
C25_AlwaysBounded ==
    pc = "acquire_servers" => elapsed <= phpyro_workers_timeout

\* C25: when no number of workers is required, acquire_servers waits no
\* longer than the timeout of the options, and a run that fails in it has
\* waited that long and has solved nothing; when a number of workers is
\* required, acquire_servers has no timeout and never fails the run.
C25_BoundedUnlessRequired ==
    /\ (pc = "acquire_servers" /\ phpyro_required_workers = None)
         => elapsed <= phpyro_workers_timeout
    /\ (pc = "acquire_servers" /\ phpyro_required_workers # None)
         => timeout = None
    /\ (distributed /\ ~ acquired /\ pc \in {"failed", "exit"})
         => /\ phpyro_required_workers = None
            /\ elapsed = phpyro_workers_timeout
            /\ server_pool < servers_expected \/ released
            /\ master_solves = 0
            /\ subproblem_solves = 0

C25_Witness ==
    /\ pc = "failed"
    /\ distributed
    /\ ~ acquired
    /\ phpyro_required_workers = None
    /\ elapsed = phpyro_workers_timeout
    /\ server_pool = 1
    /\ servers_expected = 2

\* C26: collect_servers asks for the required number of workers, with no
\* timeout, when the option is set; otherwise for one worker per bundle
\* when the scenario tree has bundles, or per scenario when it has none,
\* with the timeout of the options.
C26_CollectServersRequest ==
    (distributed /\ pc # "collect_servers")
      => IF phpyro_required_workers # None
         THEN /\ servers_expected = phpyro_required_workers[1]
              /\ timeout = None
         ELSE /\ servers_expected = Cardinality(ObjectNames)
              /\ timeout = Some(phpyro_workers_timeout)

C26_Witness ==
    /\ pc = "acquire_servers"
    /\ phpyro_required_workers = Some(1)
    /\ ~ bundling
    /\ servers_expected = 1
    /\ timeout = None
    /\ elapsed > phpyro_workers_timeout

\* C27: with phpyro, no master solve and no subproblem solve is started
\* before acquire_servers has returned, and none at all in a run whose
\* acquisition failed.
C27_AcquiredBeforeSolve ==
    /\ []((distributed /\ ~ acquired)
            => /\ master_solves = 0
               /\ subproblem_solves = 0
               /\ queue = {}
               /\ pc \in {"collect_servers", "acquire_servers", "failed",
                          "exit"})
    /\ [][(distributed /\ ~ acquired /\ pc = "failed")
            => (~ acquired' /\ pc' \in {"failed", "exit"})]_vars

C27_Witness ==
    /\ distributed
    /\ acquired
    /\ server_pool = servers_expected
    /\ subproblem_solves > 0
    /\ master_solves > 0

\* C28: a scenario tree whose number of stages is not 2 is rejected before
\* any master solve and any subproblem solve, the relaxed solves of the
\* trivial bound included.
C28_RejectedBeforeAnySolve ==
    stages # 2 => (master_solves = 0 /\ subproblem_solves = 0)

----------------------------------------------------------------------------
(* The dual suffix and the bound history.                                  *)

\* C29: EXTERNAL_initialize_for_benders creates a suffix of direction
\* IMPORT where the instance has no attribute "dual", leaves a suffix whose
\* import is enabled as it is, makes any other suffix IMPORT_EXPORT, and in
\* these cases installs the fixing block; on an attribute that is no suffix
\* it raises TypeError and installs nothing.
C29_DualSuffix ==
    [][\A s \in Scenarios :
          instances'[s] # instances[s]
            => LET before == instances[s].dual_slot
                   after == instances'[s]
               IN IF before \in {"absent"} \cup SuffixDirections
                  THEN /\ after.dual_slot =
                             (IF before = "absent" THEN "IMPORT"
                              ELSE IF before \in {"IMPORT", "IMPORT_EXPORT"}
                              THEN before
                              ELSE "IMPORT_EXPORT")
                       /\ after.raised = "none"
                       /\ after.initialized
                  ELSE /\ after.dual_slot = before
                       /\ after.raised = "TypeError"
                       /\ ~ after.initialized
                       /\ after.fix_active = instances[s].fix_active
                       /\ after.fix_value = instances[s].fix_value]_vars

C29_Witness ==
    /\ pc = "failed"
    /\ instances["Scenario1"].initialized
    /\ instances["Scenario1"].dual_slot = "IMPORT_EXPORT"
    /\ instances["Scenario2"].raised = "TypeError"
    /\ ~ instances["Scenario2"].initialized

\* C30: the bound history starts with the probability-weighted sum of the
\* relaxed objectives at index 0 and, at index -1, the user's bound or else
\* the infinity that never wins (-inf when minimizing, +inf when
\* maximizing); the best bound of the gap test of iteration i is the
\* largest (minimizing) or smallest (maximizing) of these two and of the
\* master bounds of the iterations 1..i.
C30_BoundHistory ==
    /\ DOMAIN MASTER_bound_history # {}
         => /\ MASTER_bound_history[0]
                 = Sum([s \in Scenarios |->
                          Scaled(RelaxedObjective(s), Probability(s))],
                       Scenarios)
            /\ MASTER_bound_history[0 - 1]
                 = (IF user_bound # None THEN user_bound[1]
                    ELSE IF objective_sense = "minimize" THEN NegInf
                    ELSE PosInf)
    /\ (GapComputed /\ pc \in {"solve_master", "post_loop", "done"})
         => /\ DOMAIN MASTER_bound_history = (0 - 1)..i
            /\ best_master_bound
                 = (IF objective_sense = "minimize"
                    THEN MaxOf({MASTER_bound_history[k] : k \in (0 - 1)..i})
                    ELSE MinOf({MASTER_bound_history[k] : k \in (0 - 1)..i}))

C30_Witness ==
    /\ pc = "done"
    /\ GapComputed
    /\ i = 2
    /\ user_bound = Some(2)
    /\ objective_sense = "minimize"
    /\ best_master_bound = 2
    /\ MASTER_bound_history[2] < 2

----------------------------------------------------------------------------
(* The objective estimate, the tolerance, repeated cuts, the fixing block. *)

\* C31: the objective recorded at iteration i is the master bound recorded
\* at iteration i, minus the value of alpha in that master solution, plus
\* the sum over the scenarios of probability times the second-stage cost of
\* the subproblem solved at the trial point of the iteration.
C31_IncumbentFormula ==
    [][OBJECTIVE_history' # OBJECTIVE_history
         => /\ DOMAIN OBJECTIVE_history' = DOMAIN OBJECTIVE_history \cup {i}
            /\ \A k \in DOMAIN OBJECTIVE_history :
                  OBJECTIVE_history'[k] = OBJECTIVE_history[k]
            /\ OBJECTIVE_history'[i]
                 = MASTER_bound_history[i] - alpha_value
                   + Sum([s \in Scenarios |->
                            Scaled(RecourseCost(s, xbars), Probability(s))],
                         Scenarios)]_vars

C31_Witness ==
    /\ i = 2
    /\ DOMAIN OBJECTIVE_history = {1, 2}
    /\ alpha_value = 2
    /\ xbars = Point(1, 1)
    /\ OBJECTIVE_history[2] = MASTER_bound_history[2] - 2 + 1

\* C32: convergence is reported only when 100 times the gap, the percent
\* value of the Gap column, is at most options.percent_gap.
C32_PercentGap ==
    converged
      => /\ optimality_gap # None
         /\ RatioLeq(<<100 * optimality_gap[1][1], optimality_gap[1][2]>>,
                     percent_gap)

\* C33: the cut data of a call of generate_cut are those of the trial point
\* alone: SSC and duals of every scenario are what the subproblems, fixing
\* block active and first-stage cost disabled, give at that point, whatever
\* calls came before; two calls at one trial point return the same.
C33_CutDataOfTrialPoint ==
    pc = "generate_cut"
      => \A s \in Scenarios :
            /\ results[s].SSC = CutDataAt(xbars)[s].SSC
            /\ results[s].duals = CutDataAt(xbars)[s].duals

C33_Witness ==
    /\ pc = "generate_cut"
    /\ i = 2
    /\ seed_cuts = 1
    /\ Len(benders_cuts) = 2
    /\ xbars # RootXbars
    /\ benders_cuts[2] = add_cut(<<>>, CutOf(xbars, results), FALSE)[1]
    /\ benders_cuts[1] # benders_cuts[2]

\* the positions of solve from the seed cut on
AfterPreparation ==
    pc \in {"seed", "solve_subproblems", "collect_cut_data", "wait_any",
            "generate_cut", "solve_master", "post_loop", "done"}
    \/ (pc = "wait_all" /\ ret = "solve_subproblems")

\* C36: the fixing block of every scenario is inactive right after
\* initialize_for_benders; it is activated once, after the relaxed solves,
\* the initialization and the disabling of the first-stage cost term, before
\* the first cut; from then on it stays active and the cost term disabled,
\* and every subproblem solved for a cut is solved that way.
C36_FixingBlockLifecycle ==
    /\ [](pc = "deactivate_firststage_cost"
            => \A s \in Scenarios :
                  instances[s].initialized /\ ~ instances[s].fix_active)
    /\ [](\A s \in Scenarios :
            instances[s].fix_active
              => /\ instances[s].initialized
                 /\ ~ instances[s].cost_term_active
                 /\ subproblem_solves >= 1)
    /\ [](\A s \in Scenarios :
            (~ instances[s].fix_active \/ instances[s].cost_term_active)
              => /\ benders_cuts = <<>>
                 /\ master_solves = 0
                 /\ ~ AfterPreparation)
    /\ [](pc = "generate_cut"
            => \A s \in Scenarios : instances[s].solved_at = Some(xbars))
    /\ [][\A s \in Scenarios :
            /\ instances[s].fix_active => instances'[s].fix_active
            /\ ~ instances[s].cost_term_active
                 => ~ instances'[s].cost_term_active]_vars

C36_Witness ==
    /\ pc = "done"
    /\ i = 2
    /\ Len(benders_cuts) >= 2
    /\ \A s \in Scenarios :
          /\ instances[s].fix_active
          /\ ~ instances[s].cost_term_active
          /\ instances[s].solved_at = Some(xbars)

----------------------------------------------------------------------------
(* The components of the subproblem manager.                               *)

\* C40: whenever exec_runbenders is left, the components the subproblem
\* manager acquired in BendersAlgorithm.initialize have been released, also
\* when initialize raised after ph.initialize had returned.
C40_ComponentsReleased ==
    pc = "exit" => ~ ph_components

----------------------------------------------------------------------------
(* The methods called on their own.                                        *)

\* C38: with phpyro every per-scenario method sends its function to the
\* same objects: the bundles when the scenario tree has bundles, the
\* scenarios otherwise.
C38_SameTargets ==
    \A h \in queue \cup completed :
        h.fn # "foreign" => h.target \in ObjectNames

\* C39: activate_firststage_cost, called when the first-stage cost terms
\* have been disabled, returns without an error and leaves the cost term of
\* every scenario enabled.
C39_ActivateRestores ==
    (caller = "activate_firststage_cost" /\ pc # "wait_all")
      => /\ pc = "call"
         /\ \A s \in Scenarios :
               /\ instances[s].raised = "none"
               /\ instances[s].cost_term_active

----------------------------------------------------------------------------
(* Runs with a master solver that answers from its cuts.                   *)

\* C37: the objective recorded at iteration i is the cost of the
\* undecomposed problem at the trial point of the iteration, first-stage
\* cost plus probability-weighted recourse costs, whatever gap the master
\* solver reports; so the best incumbent is never below the optimum.
C37_IncumbentIsTrueObjective ==
    /\ [][OBJECTIVE_history' # OBJECTIVE_history
            => OBJECTIVE_history'[i] = TrueObjective(xbars)]_vars
    /\ [](incumbent_objective >= MonolithicOptimum)

\* C35 as stated: on the instance with recourse costs max(0, 5 - x) and
\* max(0, x - 5) the run converges to x = 5 with objective 5 (10 halves)
\* and a gap within the tolerance.
C35_ConvergesToFive ==
    (problem = "claimed" /\ master_mipgap = 0 /\ max_iterations >= 1
       /\ pc = "done")
      => /\ converged
         /\ xbars["x1"] = 5
         /\ incumbent_objective = 10
         /\ RatioLeq(optimality_gap[1], percent_gap)

\* C35, amended: on that instance, with a master solved to optimality, the
\* run converges at its first iteration to x = 0 with objective 2.5
\* (5 halves), the optimum of the undecomposed problem, and a gap of 0.
C35_ConvergesToZero ==
    (problem = "claimed" /\ master_mipgap = 0 /\ max_iterations >= 1
       /\ pc = "done")
      => /\ converged
         /\ i = 1
         /\ xbars["x1"] = 0
         /\ incumbent_objective = 5
         /\ incumbent_objective = MonolithicOptimum
         /\ optimality_gap # None
         /\ optimality_gap[1][1] = 0
         /\ RatioLeq(optimality_gap[1], percent_gap)

C35_Witness ==
    /\ problem = "claimed"
    /\ master_mipgap = 0
    /\ pc = "done"
    /\ converged
    /\ xbars["x1"] = 0
    /\ incumbent_objective = 5

====
